---------------------------- MODULE PortalSession ----------------------------
(***************************************************************************)
(* The upload portal as the application runs it (app/AppController):       *)
(* servicePortal() at the start of every tick polls the radio, lets the    *)
(* HTTP server run, stops it after eight minutes without a request, starts *)
(* it when the radio is connected and gives up four seconds after a        *)
(* failure; the library's menu and two screens of their own are where the  *)
(* user starts, stops and sets it up.  The parts of a tick are actions     *)
(* taken in its order.                                                     *)
(*                                                                         *)
(* Opening a book, reading it and its menu are one state here, "Book".     *)
(* Which network is secured is part of the world, and what is drawn is     *)
(* left out.                                                               *)
(***************************************************************************)
EXTENDS WifiService, UploadPortal

CONSTANTS
  OpenNetworks, \* the networks that ask for no password
  IdleTime,     \* kPortalIdleTimeoutMs
  FailureTime   \* how long a failure is shown

ASSUME SessionAssumption ==
  OpenNetworks \subseteq Networks /\ {IdleTime, FailureTime} \subseteq 1 .. Horizon

VARIABLES
  app,      \* AppState, of the states the portal meets
  radio,    \* PowerManager: the Wi-Fi radio is powered
  starting, \* portalStartRequested_
  failure,  \* portalFailureStartedMs_, as an age
  selected, \* portalSelectedSsid_, read on the password's screen only
  phase,    \* the part of tick() that comes next
  stale,    \* the books that came or went since the library's list was made
  quiet     \* neither the user nor a client does anything any more

sessionVars == <<app, radio, starting, failure, selected, phase, stale, quiet>>
vars == <<wifiVars, portalVars, sessionVars>>

NetworkScreens == {"Networks", "Password"}
Screens == {"FileBrowser", "LibraryMenu", "Book"} \cup NetworkScreens

(* What another session saved: an open network without a password *)
SavedAtStart ==
  {<<>>} \cup {<<c>> : c \in {d \in Credentials : d[1] \in OpenNetworks => d[2] = NoPassword}}

Init ==
  /\ \E saved \in SavedAtStart : wifi = NewWifi(saved)
  /\ tried = NotTrying
  /\ PortalInit
  /\ app = "FileBrowser" /\ radio = FALSE /\ starting = FALSE /\ failure = Never
  /\ selected = NoNetwork /\ phase = "wifi" /\ stale = {} /\ quiet = FALSE
-----------------------------------------------------------------------------
(***************************************************************************)
(* Starting and stopping.                                                  *)
(***************************************************************************)

(* Mutated: Wi-Fi goes, the server stays. *)
StopWifiOnly ==
  /\ wifi' = Stop(wifi) /\ tried' = NotTrying /\ radio' = FALSE
  /\ starting' = FALSE /\ changed' = FALSE
  /\ app' = IF app \in NetworkScreens THEN "LibraryMenu" ELSE app
  /\ UNCHANGED <<portal, request, files, parts, bus, owned, orphans, selected,
                 stale, quiet>>

(* stopUploadServer(); what the clients changed sends the user, wherever   *)
(* he is, to the library, whose directory is scanned again.                *)
StopUploadServer ==
  /\ EndPortal
  /\ wifi' = Stop(wifi) /\ tried' = NotTrying /\ radio' = FALSE
  /\ starting' = FALSE /\ changed' = FALSE
  /\ app' = IF changed THEN "FileBrowser"
            ELSE IF app \in NetworkScreens THEN "LibraryMenu" ELSE app
  /\ stale' = IF changed THEN {} ELSE stale
  /\ UNCHANGED <<files, owned, selected, quiet>>

(* Mutated: the changes of the portal that goes are forgotten with it. *)
RestartForgettingChanges(choose) ==
  \/ /\ Idle(wifi)
     /\ EndPortal
     /\ radio' = TRUE /\ starting' = ~choose /\ failure' = Never /\ changed' = FALSE
     /\ wifi' = BeginScan(wifi)
     /\ app' = IF choose THEN "Networks" ELSE app
     /\ UNCHANGED <<tried, files, owned, selected, stale, quiet>>
  \/ ~Idle(wifi) /\ StopUploadServer /\ failure' = Never

(* requestPortalStart() *)
RequestPortalStart(choose) ==
  \/ /\ Idle(wifi)
     /\ EndPortal
     /\ radio' = TRUE /\ starting' = ~choose /\ failure' = Never
     /\ wifi' = BeginScan(wifi)
     /\ app' = IF choose THEN "Networks" ELSE app
     /\ UNCHANGED <<tried, files, owned, changed, selected, stale, quiet>>
  \/ ~Idle(wifi) /\ StopUploadServer /\ failure' = Never

(* startHttpPortal(), whatever the user is doing. *)
StartHttpPortal ==
  /\ portal' = Started(portal)
  /\ starting' = FALSE /\ app' = "LibraryMenu"
  /\ UNCHANGED <<wifiVars, request, files, parts, bus, changed, owned, orphans,
                 radio, failure, selected, stale, quiet>>
-----------------------------------------------------------------------------
(***************************************************************************)
(* servicePortal()                                                         *)
(***************************************************************************)
ServiceWifi ==
  /\ phase = "wifi" /\ phase' = "server"
  /\ PollWifi
  /\ UNCHANGED <<portalVars, app, radio, starting, failure, selected, stale, quiet>>

(* The books that a callback brings, takes away or replaces. *)
CardChanges == {path \in Paths : files'[path] # files[path]}

ServeClient ==
  /\ phase = "server" /\ ~quiet
  /\ HandleClient
  /\ stale' = stale \cup CardChanges
  /\ UNCHANGED <<wifiVars, app, radio, starting, failure, selected, phase, quiet>>

(* handleClient() returns, not in the middle of a callback. *)
LeaveServer ==
  /\ phase = "server" /\ request # "renaming"
  /\ IF portal.running /\ Expired(portal.idle, IdleTime)
       THEN StopUploadServer /\ UNCHANGED failure /\ phase' = "touch"
       ELSE phase' = "radio" /\ UNCHANGED <<wifiVars, portalVars, app, radio, starting,
                                            failure, selected, stale, quiet>>

(* The renaming is under way and ends by itself. *)
FinishCallback ==
  /\ phase = "server" /\ RenameUpload
  /\ stale' = stale \cup CardChanges
  /\ UNCHANGED <<wifiVars, app, radio, starting, failure, selected, phase, quiet>>

(* The strongest saved network, or else the user is asked, again wherever  *)
(* he is.                                                                  *)
UseScan ==
  /\ wifi.state = "ScanDone"
  /\ \/ /\ starting
        /\ \E network \in wifi.known : JoinSaved(network)
        /\ UNCHANGED <<starting, app>>
     \/ /\ starting /\ wifi.known \cap NetworksOf(wifi.saved) = {}
        /\ starting' = FALSE /\ app' = "Networks" /\ UNCHANGED wifiVars
     \/ ~starting /\ UNCHANGED <<wifiVars, starting, app>>
  /\ UNCHANGED <<portalVars, radio, failure, selected, stale, quiet>>

NoteFailure ==
  /\ wifi.state = "Failed" /\ failure = Never
  /\ starting' = FALSE /\ failure' = 0
  /\ UNCHANGED <<wifiVars, portalVars, app, radio, selected, stale, quiet>>

FollowRadio ==
  /\ phase = "radio" /\ phase' = "failure"
  /\ \/ UseScan
     \/ wifi.state = "Connected" /\ ~portal.running /\ StartHttpPortal
     \/ NoteFailure
     \/ /\ \/ wifi.state \in {"Off", "Scanning", "Connecting"}
           \/ wifi.state = "Connected" /\ portal.running
           \/ wifi.state = "Failed" /\ failure # Never
        /\ UNCHANGED <<wifiVars, portalVars, app, radio, starting, failure, selected,
                       stale, quiet>>

FailureShown == failure # Never /\ Expired(failure, FailureTime)

(* Mutated: given up only where the failure is shown. *)
GiveUpInMenu ==
  /\ phase = "failure" /\ phase' = "touch"
  /\ IF FailureShown /\ app = "LibraryMenu"
       THEN StopUploadServer /\ failure' = Never
       ELSE UNCHANGED <<wifiVars, portalVars, app, radio, starting, failure, selected,
                        stale, quiet>>

GiveUp ==
  /\ phase = "failure" /\ phase' = "touch"
  /\ IF FailureShown /\ app \notin NetworkScreens
       THEN StopUploadServer /\ failure' = Never
       ELSE UNCHANGED <<wifiVars, portalVars, app, radio, starting, failure, selected,
                        stale, quiet>>
-----------------------------------------------------------------------------
(***************************************************************************)
(* The user.  handleBrowserEvent(), as far as the portal can tell;         *)
(* opening a directory scans it, unless an upload has the bus.             *)
(***************************************************************************)
GoTo(here, there) ==
  /\ app = here /\ app' = there
  /\ selected' = NoNetwork
  /\ UNCHANGED <<wifiVars, portalVars, radio, starting, failure, stale>>

OpenDirectory ==
  /\ app = "FileBrowser"
  /\ stale' = IF bus = "None" THEN {} ELSE stale
  /\ UNCHANGED <<wifiVars, portalVars, app, radio, starting, failure, selected>>

(* handleLibraryMenuEvent() *)
ToggleServer ==
  /\ app = "LibraryMenu"
  /\ IF portal.running \/ wifi.state \in {"Connected", "Connecting", "Scanning"}
       THEN StopUploadServer /\ UNCHANGED failure
       ELSE RequestPortalStart(FALSE)

ChooseNetwork == app = "LibraryMenu" /\ RequestPortalStart(TRUE)

(* handleWebPortalEvent(), the list of networks *)
CancelNetworks == app = "Networks" /\ StopUploadServer /\ UNCHANGED failure

Rescan(forget) ==
  /\ app = "Networks"
  /\ failure' = Never
  /\ wifi' = BeginScan(IF forget THEN ForgetAll(wifi) ELSE wifi)
  /\ UNCHANGED <<tried, portalVars, app, radio, starting, selected, stale>>

TapNetwork(network) ==
  /\ app = "Networks" /\ network \in wifi.found
  /\ \/ /\ network \in wifi.known \cap NetworksOf(wifi.saved)
        /\ JoinSaved(network) /\ UNCHANGED <<app, selected>>
     \/ /\ network \in wifi.known \ NetworksOf(wifi.saved)
        /\ UNCHANGED <<wifiVars, app, selected>>
     \/ /\ network \in OpenNetworks \ wifi.known
        /\ JoinNetwork(network, NoPassword, TRUE) /\ UNCHANGED <<app, selected>>
     \/ /\ network \notin OpenNetworks \cup wifi.known
        /\ app' = "Password" /\ selected' = network /\ UNCHANGED wifiVars
  /\ UNCHANGED <<portalVars, radio, starting, failure, stale>>

(* ... and the password *)
EnterPassword(password, remember) ==
  /\ app = "Password" /\ app' = "LibraryMenu"
  /\ JoinNetwork(selected, password, remember) /\ selected' = NoNetwork
  /\ UNCHANGED <<portalVars, radio, starting, failure, stale>>

User ==
  \/ GoTo("FileBrowser", "LibraryMenu") \/ GoTo("LibraryMenu", "FileBrowser")
  \/ GoTo("FileBrowser", "Book") \/ GoTo("Book", "FileBrowser")
  \/ GoTo("Password", "Networks")
  \/ OpenDirectory \/ ToggleServer \/ ChooseNetwork \/ CancelNetworks
  \/ \E forget \in BOOLEAN : Rescan(forget)
  \/ \E network \in Networks : TapNetwork(network)
  \/ \E password \in Passwords, remember \in BOOLEAN : EnterPassword(password, remember)

Touch ==
  /\ phase = "touch" /\ phase' = "wifi" /\ UNCHANGED quiet
  /\ \/ ~quiet /\ User
     \/ UNCHANGED <<wifiVars, portalVars, app, radio, starting, failure, selected, stale>>
-----------------------------------------------------------------------------
(* What a tick takes, and the pause between two, is told at its start. *)
Elapse ==
  /\ phase = "wifi"
  /\ wifi' = WifiAged(wifi)
  /\ portal' = IF portal.running THEN [portal EXCEPT !.idle = Older(@)] ELSE portal
  /\ failure' = Older(failure)
  /\ UNCHANGED <<tried, request, files, parts, bus, changed, owned, orphans,
                 app, radio, starting, selected, phase, stale, quiet>>

GoQuiet == ~quiet /\ quiet' = TRUE
  /\ UNCHANGED <<wifiVars, portalVars, app, radio, starting, failure, selected, phase, stale>>

Tick == ServiceWifi \/ LeaveServer \/ FinishCallback \/ FollowRadio \/ GiveUp \/ Touch

Next == Tick \/ ServeClient \/ Elapse \/ GoQuiet

Spec == Init /\ [][Next]_vars

(* The loop goes on and the clock with it; nobody has to do anything. *)
FairSpec == Spec /\ WF_vars(Tick) /\ SF_vars(Elapse)
-----------------------------------------------------------------------------
SessionTypeOK ==
  /\ WifiTypeOK /\ PortalTypeOK
  /\ app \in Screens /\ radio \in BOOLEAN /\ starting \in BOOLEAN
  /\ failure \in {Never} \cup 0 .. Horizon /\ selected \in Networks \cup {NoNetwork}
  /\ phase \in {"wifi", "server", "radio", "failure", "touch"}
  /\ stale \subseteq Paths /\ quiet \in BOOLEAN

(***************************************************************************)
(* The server runs on a link, or on one whose loss is about to stop it,    *)
(* and nothing of Wi-Fi goes on with the radio off: every way to a stop,   *)
(* and every start that another one interrupts, takes all three along.     *)
(***************************************************************************)
ServerHasLink ==
  /\ portal.running => wifi.state \in {"Connected", "Failed"}
  /\ wifi.state # "Off" => radio
  /\ app \in NetworkScreens => radio /\ ~portal.running

(***************************************************************************)
(* "Refresh the library after a successful upload so the new book becomes  *)
(* visible" (docs/roadmap.md:27): when the radio is off again, the list    *)
(* was made after the last book came or was deleted, however often the     *)
(* portal was restarted in between.  Only a book that its own replacement  *)
(* took away and could not follow is listed still: nobody is told of it.   *)
(***************************************************************************)
LibraryIsFresh == ~radio => \A path \in stale : files[path] = "none" /\ path \in owned

(***************************************************************************)
(* A network is added to the saved ones only as the radio joins it, with   *)
(* the password that the radio was last given: not with one that was       *)
(* mistyped, nor with one of an attempt that another one replaced before   *)
(* it was answered.                                                        *)
(***************************************************************************)
OnlyJoinedIsSaved ==
  [][\A credentials \in Members(wifi.saved') \ Members(wifi.saved) :
       tried = credentials /\ wifi'.state = "Connected"]_vars

(***************************************************************************)
(* Left alone, the device turns the radio off, unless it shows one of the  *)
(* two screens on which it waits for the user: eight minutes, a failed     *)
(* link and a failed connection all lead there.                            *)
(***************************************************************************)
LeftAloneRadioGoesOff == quiet ~> ~radio \/ app \in NetworkScreens
=============================================================================
