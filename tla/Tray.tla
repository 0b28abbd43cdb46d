-------------------------------- MODULE Tray --------------------------------
(***************************************************************************)
(* The notification-area icon beside an installed service                  *)
(* (tray_windows.go, console_windows.go): a goroutine that polls the       *)
(* console and looks for it when it does not answer, the thread of the     *)
(* window's messages, and the goroutines of the menu.  All of them write   *)
(* the same icon.                                                          *)
(*                                                                         *)
(* An icon and its tooltip are the Face they were computed from; wording   *)
(* and language are left out, but not the steps of a change of language.   *)
(***************************************************************************)
EXTENDS Service

CONSTANTS
  Targets    \* the targets that may be down

ASSUME TrayAssumption == IsFiniteSet(Targets)

VARIABLES
  down,        \* the targets that are down
  shell,       \* the notification area is there
  posted,      \* TaskbarCreated waits in the message queue
  icon,        \* what the notification area shows, or None
  on,          \* the tray process
  url,         \* consoleU, as a port
  status,      \* what the last poll saw
  face,        \* cur and tip: what the icon was last set to
  prev,        \* what the poll before saw, or None
  remembered,  \* LastPort in the user's registry, or None
  watch,       \* the polling goroutine
  ui,          \* the message thread
  retry,       \* retryAdd is under way
  leaving,     \* "Stop pingping and exit" waits for the console to go
  seen,        \* history: the targets down at the last fetch,
  told,        \* those a balloon has made known,
  unsaid,      \* those there was no balloon for, or no icon to carry it,
  crossed      \* and whether the message thread may have been the later of two in
               \* the shell's call

trayVars == <<icon, on, url, status, face, prev, remembered, watch, ui, retry, leaving,
              seen, told, unsaid, crossed>>
history == <<told, unsaid, crossed>>
vars == <<serviceVars, down, shell, posted, trayVars>>

Faces == {"starting", "silent", "up", "down"}

Health == [reachable : BOOLEAN, down : 0..Cardinality(Targets), configured : Ports \cup {None}]

\* None is not one of the answers.
ASSUME NoneAssumption == None \notin Health

\* The zero value, and what a poll without an answer leaves.
Silent == [reachable |-> FALSE, down |-> 0, configured |-> None]

Face(h) == IF ~h.reachable THEN "silent" ELSE IF h.down > 0 THEN "down" ELSE "up"

\* The ports findConsole may have to try, None where there is none to try.
NoPorts == [k \in 1..4 |-> None]

Waiting == [at |-> "poll", st |-> Silent, left |-> NoPorts, data |-> "starting"]
Resting == [at |-> "idle", data |-> "starting"]

(***************************************************************************)
(* GET /api/health on localhost: the configured port is told along.        *)
(***************************************************************************)
FetchHealth(p) ==
  IF listen # None /\ listen.port = p
  THEN [reachable |-> TRUE, down |-> Cardinality(down),
        configured |-> AddressOf(stored).port]
  ELSE Silent

-----------------------------------------------------------------------------

(***************************************************************************)
(* An installed service that runs, and nobody signed in.                   *)
(***************************************************************************)
TrayInit ==
  /\ mode \in Modes
  /\ \E p \in Ports, e \in Exes :
       /\ mode = "menu" => p = DefaultPort     \* a bound: the port stays
       /\ stored = [Unset EXCEPT !.port = p] /\ saving = None
       /\ entry = "present" /\ exe = e
       /\ state = "running" /\ recover = FALSE /\ ran = e
       /\ listen = AddressOf(stored)
       /\ rule = RuleFor(listen) /\ info = p
  /\ script = [s \in Scripts |-> NoScript] /\ old = "stopped"
  /\ down = {} /\ shell = FALSE /\ posted = FALSE
  /\ icon = None /\ on = FALSE /\ url = None /\ status = Silent /\ face = "starting"
  /\ prev = None /\ remembered = None /\ watch = Waiting /\ ui = Resting
  /\ retry = FALSE /\ leaving = FALSE
  /\ seen = {} /\ told = {} /\ unsaid = {} /\ crossed = FALSE

(***************************************************************************)
(* runTrayCompanion: the port that worked last, else the one published,    *)
(* else the default.  A named mutex keeps it to one tray.                  *)
(***************************************************************************)
\* Mutant: a tray that never found the console has no port to ask.
FirstKnown(p, q, r) == p

FirstOf(p, q, r) == IF p # None THEN p ELSE IF q # None THEN q ELSE r

TrayStart ==
  /\ ~on
  /\ on' = TRUE
  /\ url' = FirstOf(remembered, info, DefaultPort)
  /\ status' = Silent /\ face' = "starting" /\ prev' = None
  /\ watch' = Waiting /\ ui' = Resting
  /\ icon' = IF shell THEN "starting" ELSE None
  /\ retry' = ~shell
  /\ seen' = {} /\ told' = {} /\ unsaid' = {} /\ crossed' = FALSE
  /\ UNCHANGED <<serviceVars, down, shell, posted, remembered, leaving>>

\* The process ends: from the menu, after QuitAll, or at sign-out.
Ends ==
  /\ on' = FALSE /\ icon' = None /\ url' = None
  /\ status' = Silent /\ face' = "starting" /\ prev' = None
  /\ watch' = Waiting /\ ui' = Resting /\ retry' = FALSE /\ leaving' = FALSE
  /\ seen' = {} /\ told' = {} /\ unsaid' = {} /\ crossed' = FALSE
  /\ posted' = FALSE
  /\ UNCHANGED <<serviceVars, down, shell, remembered>>

Exit == on /\ Ends

-----------------------------------------------------------------------------

(***************************************************************************)
(* The polling goroutine.                                                  *)
(***************************************************************************)
\* Mutant: the console is asked on the port it was on, and nowhere else.
CandidatesNone(configured) == NoPorts

Candidates(configured) == <<configured, remembered, info, DefaultPort>>

Without(ports, p) == [k \in 1..4 |-> IF ports[k] = p THEN None ELSE ports[k]]

Look(h) == watch' = [watch EXCEPT !.at = "publish", !.st = h]

Poll ==
  /\ on /\ watch.at = "poll"
  /\ LET h == FetchHealth(url)
     IN  IF h.reachable
         THEN Look(h) /\ seen' = down
         ELSE /\ watch' = [watch EXCEPT !.at = "find",
                             !.left = Without(Candidates(status.configured), url)]
              /\ UNCHANGED seen
  /\ UNCHANGED <<serviceVars, down, shell, posted, icon, on, url, status, face, prev,
                 remembered, ui, retry, leaving, history>>

Try ==
  /\ on /\ watch.at = "find"
  /\ \E k \in 1..4 :
       LET p == watch.left[k]
       IN  /\ p # None /\ \A j \in 1..4 : j < k => watch.left[j] = None
           /\ IF FetchHealth(p).reachable
              THEN /\ url' = p /\ remembered' = p
                   /\ watch' = [watch EXCEPT !.at = "again", !.left = NoPorts]
              ELSE /\ watch' = [watch EXCEPT !.left = Without(@, p)]
                   /\ UNCHANGED <<url, remembered>>
  /\ UNCHANGED <<serviceVars, down, shell, posted, icon, on, status, face, prev, ui,
                 retry, leaving, seen, history>>

Settle ==
  /\ on
  /\ \/ watch.at = "find" /\ watch.left = NoPorts /\ Look(Silent) /\ seen' = {}
     \/ watch.at = "again" /\ Look(FetchHealth(url)) /\ seen' = down
  /\ UNCHANGED <<serviceVars, down, shell, posted, icon, on, url, status, face, prev,
                 remembered, ui, retry, leaving, history>>

(***************************************************************************)
(* A balloon on a transition.  The first poll raises none.  A console that *)
(* is back says how many are down.                                         *)
(***************************************************************************)
\* Mutant: the comparison the wrong way round.
BalloonSwapped(h) ==
  IF prev.reachable /\ ~h.reachable THEN "stopped"
  ELSE IF ~prev.reachable /\ h.reachable THEN "back"
  ELSE IF h.reachable /\ h.down < prev.down THEN "down"
  ELSE "none"

Balloon(h) ==
  IF prev.reachable /\ ~h.reachable THEN "stopped"
  ELSE IF ~prev.reachable /\ h.reachable THEN "back"
  ELSE IF h.reachable /\ h.down > prev.down THEN "down"
  ELSE IF h.reachable /\ prev.down > 0 /\ h.down = 0 THEN "up"
  ELSE "none"

Counts(h) == prev # None /\ Balloon(h) \in {"back", "down"}

\* A balloon modifies an icon: where there is none it is lost, and nobody looks
\* at the result of the call.
Told(h) ==
  IF ~h.reachable THEN {}
  ELSE IF Counts(h) /\ icon # None THEN seen
  ELSE told \cap seen

Unsaid(h) ==
  IF ~h.reachable THEN {}
  ELSE IF prev = None \/ (Counts(h) /\ icon = None) THEN seen \ told
  ELSE IF Counts(h) THEN {}
  ELSE unsaid \cap seen

Unchanged(f) == f = face

(***************************************************************************)
(* What was seen is kept for the menu, a balloon modifies an icon that is  *)
(* there, and setState sets the icon unless it is the one set last.        *)
(***************************************************************************)
Announce ==
  /\ on /\ watch.at = "publish"
  /\ LET h == watch.st
     IN  /\ status' = h /\ prev' = h /\ told' = Told(h) /\ unsaid' = Unsaid(h)
         /\ face' = Face(h)
         /\ watch' = [watch EXCEPT !.at = IF Unchanged(Face(h)) THEN "poll" ELSE "build",
                                   !.st = Silent]
         /\ icon' = IF icon # None /\ prev # None /\ Balloon(h) # "none"
                    THEN face ELSE icon
  /\ UNCHANGED <<serviceVars, down, shell, posted, on, url, remembered, ui, retry,
                 leaving, seen, crossed>>

(***************************************************************************)
(* notify builds its data from cur and tip, then calls the shell; no lock  *)
(* spans the two.  A modify that fails is followed by an add.              *)
(***************************************************************************)
Modified(data) ==
  IF ~shell THEN None ELSE IF icon # None THEN data ELSE face

WatchBuilds ==
  /\ on /\ watch.at = "build"
  /\ watch' = [watch EXCEPT !.at = "tell", !.data = face]
  /\ crossed' = (crossed \/ ui.at = "tell")
  /\ UNCHANGED <<serviceVars, down, shell, posted, icon, on, url, status, face, prev,
                 remembered, ui, retry, leaving, seen, told, unsaid>>

WatchTells ==
  /\ on /\ watch.at = "tell"
  /\ icon' = Modified(watch.data)
  /\ watch' = Waiting
  /\ crossed' = (crossed /\ ui.at = "tell")
  /\ UNCHANGED <<serviceVars, down, shell, posted, on, url, status, face, prev,
                 remembered, ui, retry, leaving, seen, told, unsaid>>

RetryAdd ==
  /\ on /\ retry
  /\ retry' = FALSE
  /\ icon' \in {icon, IF shell /\ icon = None THEN face ELSE icon}
  /\ UNCHANGED <<serviceVars, down, shell, posted, on, url, status, face, prev,
                 remembered, watch, ui, leaving, seen, history>>

-----------------------------------------------------------------------------

(***************************************************************************)
(* The message thread.  The shell announces itself when it comes up, and   *)
(* if the announcement is heard the icon is added again.                   *)
(***************************************************************************)
TaskbarCreated ==
  /\ on /\ posted /\ ui.at = "idle"
  /\ posted' = FALSE
  /\ icon' = IF shell /\ icon = None THEN face ELSE icon
  /\ UNCHANGED <<serviceVars, down, shell, on, url, status, face, prev, remembered,
                 watch, ui, retry, leaving, seen, history>>

(***************************************************************************)
(* setLang empties the tooltip, so that setState finds a change, and sets  *)
(* the icon from the status it read before.                                *)
(***************************************************************************)
SetLang ==
  /\ on /\ ui.at = "idle" /\ icon # None /\ mode = "menu"
  /\ face' = Face(status)
  /\ ui' = [ui EXCEPT !.at = "build"]
  /\ UNCHANGED <<serviceVars, down, shell, posted, icon, on, url, status, prev,
                 remembered, watch, retry, leaving, seen, history>>

UiBuilds ==
  /\ on /\ ui.at = "build"
  /\ ui' = [at |-> "tell", data |-> face]
  /\ crossed' = (crossed \/ watch.at = "tell")
  /\ UNCHANGED <<serviceVars, down, shell, posted, icon, on, url, status, face, prev,
                 remembered, watch, retry, leaving, seen, told, unsaid>>

UiTells ==
  /\ on /\ ui.at = "tell"
  /\ icon' = Modified(ui.data)
  /\ ui' = Resting
  /\ UNCHANGED <<serviceVars, down, shell, posted, on, url, status, face, prev,
                 remembered, watch, retry, leaving, seen, history>>

-----------------------------------------------------------------------------

(***************************************************************************)
(* The menu.  Restart and stop are offered while the last poll was         *)
(* answered, start otherwise.                                              *)
(***************************************************************************)
Offered(verb) ==
  /\ on /\ icon # None /\ ui.at = "idle"
  /\ status.reachable <=> verb \in {"restart", "stop"}

MenuItem(s) ==
  \E verb \in {"restart", "stop", "start"} :
    /\ Offered(verb)
    /\ Menu(s, verb)
    /\ UNCHANGED <<down, shell, posted, trayVars>>

(***************************************************************************)
(* The console verb of an installed copy looks at the published port, asks *)
(* before it starts a service that is stopped, and starts the tray (a step *)
(* of its own, TrayStart).                                                 *)
(***************************************************************************)
OpenConsole(s) ==
  /\ info # None /\ ~FetchHealth(info).reachable
  /\ state \in {"stopped", "stopping"}
  /\ Menu(s, "start")
  /\ UNCHANGED <<down, shell, posted, trayVars>>

(***************************************************************************)
(* "Stop pingping and exit": the stop begins if the prompt is accepted,    *)
(* and the icon goes when the console stops answering, or in 25 seconds.   *)
(***************************************************************************)
QuitAll(s) ==
  /\ on /\ icon # None /\ ui.at = "idle" /\ ~leaving /\ mode = "menu"
  /\ leaving' = TRUE
  /\ Menu(s, "stop") \/ UNCHANGED serviceVars
  /\ UNCHANGED <<down, shell, posted, icon, on, url, status, face, prev, remembered,
                 watch, ui, retry, seen, history>>

Quits ==
  /\ leaving
  /\ Ends

-----------------------------------------------------------------------------

GoesDown ==
  /\ \E t \in Targets : down' = IF t \in down THEN down \ {t} ELSE down \cup {t}
  /\ UNCHANGED <<serviceVars, shell, posted, trayVars>>

\* TaskbarCreated is a broadcast; a message-only window may not be sent it.
ShellStarts ==
  /\ ~shell
  /\ shell' = TRUE /\ posted' \in {FALSE, on}
  /\ UNCHANGED <<serviceVars, down, trayVars>>

\* Explorer crashes, or the user signs out.
ShellEnds ==
  /\ shell
  /\ shell' = FALSE /\ posted' = FALSE /\ icon' = None
  /\ UNCHANGED <<serviceVars, down, on, url, status, face, prev, remembered, watch, ui,
                 retry, leaving, seen, history>>

\* Of a settings request only the port matters here (a bound of the model).
MovePort == mode # "menu" /\ SavePort /\ saving' = None

ServiceStep ==
  /\ Process \/ MovePort \/ \E s \in Scripts : Command(s)
  /\ UNCHANGED <<down, shell, posted, trayVars>>

WatchStep == Poll \/ Try \/ Settle \/ Announce \/ WatchBuilds \/ WatchTells \/ RetryAdd
UiStep == TaskbarCreated \/ UiBuilds \/ UiTells

TrayNext ==
  \/ ServiceStep \/ WatchStep \/ UiStep
  \/ TrayStart \/ Exit \/ SetLang \/ Quits
  \/ \E s \in Scripts : MenuItem(s) \/ OpenConsole(s) \/ QuitAll(s)
  \/ GoesDown \/ ShellStarts \/ ShellEnds

(***************************************************************************)
(* The service, the command lines and the goroutines go on; nobody has to  *)
(* change anything, sign in or out, or use the menu.                       *)
(***************************************************************************)
Fairness ==
  /\ WF_vars(Process /\ UNCHANGED <<down, shell, posted, trayVars>>)
  /\ WF_vars((\E s \in Scripts : Command(s)) /\ UNCHANGED <<down, shell, posted, trayVars>>)
  /\ WF_vars(WatchStep)
  /\ WF_vars(UiStep)
  /\ WF_vars(Quits)

TraySpec == TrayInit /\ [][TrayNext]_vars /\ Fairness

-----------------------------------------------------------------------------

TrayTypeOK ==
  /\ TypeOK
  /\ down \subseteq Targets
  /\ {shell, posted, on, retry, leaving, crossed} \subseteq BOOLEAN
  /\ {icon, face} \subseteq Faces \cup {None}
  /\ remembered \in Ports \cup {None}
  /\ url \in Ports \cup {None} /\ (on => url \in Ports)
  /\ status \in Health /\ prev \in Health \cup {None}
  /\ watch \in [at : {"poll", "find", "again", "publish", "build", "tell"}, st : Health,
                left : [1..4 -> Ports \cup {None}], data : Faces]
  /\ ui \in [at : {"idle", "build", "tell"}, data : Faces]
  /\ {seen, told, unsaid} \subseteq SUBSET Targets

(***************************************************************************)
(* Once a poll is over, whatever it saw down a balloon has told of while   *)
(* there was an icon to carry it, but for what was down at the first poll  *)
(* or while there was none (tray_windows.go 355-357, 671-672).  And an     *)
(* icon that is there shows that something is down, although it was lost   *)
(* with the shell or put up again in the meantime, unless the two threads  *)
(* have been in the shell's call at once.  Of two targets one can hide     *)
(* from the balloons behind the other: the tray only gets counts.          *)
(***************************************************************************)
DownIsTold ==
  on /\ prev # None /\ status.reachable /\ watch.at = "poll"
    => /\ seen \subseteq told \cup unsaid
       /\ icon # None /\ ~crossed /\ seen # {} => icon = "down"

(***************************************************************************)
(* In a behavior in which the console, the targets, the shell and the tray *)
(* are left alone from some time on, an icon that is there ends up showing *)
(* what is true, whatever port the console has moved to, unless the        *)
(* message thread was the later of two that were in the shell's call at    *)
(* once and nothing has changed since (tray_windows.go 653-655, 704-707).  *)
(***************************************************************************)
Truth == IF listen = None THEN "silent" ELSE IF down = {} THEN "up" ELSE "down"

LeftAlone == <>[][FALSE]_<<listen, stored, info, script, down, shell, on>>

IconFollows == LeftAlone => <>[](icon # None /\ ~crossed => icon = Truth)

(***************************************************************************)
(* Not so: an icon that is lost with the shell always comes back with it   *)
(* (tray_windows.go 409-411).                                              *)
(***************************************************************************)
IconReturns == []<>(on /\ shell => icon # None)

(***************************************************************************)
(* Nor this: "Stop pingping and exit" takes the icon away only when the    *)
(* console has gone (tray_windows.go 567-571).                             *)
(***************************************************************************)
QuitMeansStopped == [][leaving /\ ~on' => listen = None]_vars

=============================================================================
