---------------------------- MODULE WifiService ----------------------------
(***************************************************************************)
(* The radio behind the upload portal (net/WifiService): an asynchronous   *)
(* scan with retries, an association with a timeout, and a link that may   *)
(* be lost and come back.  poll() is called once in every tick of the      *)
(* application's loop; what the radio answers is any of its answers.       *)
(*                                                                         *)
(* An instant the code records is kept as its age, in units of a clock     *)
(* that stops counting at Horizon, beyond every timeout.  Signal strength  *)
(* is left out: of two saved networks either may be the stronger.          *)
(*                                                                         *)
(* Of the radio we assume that WiFi.begin() drops the association before   *)
(* it, so that the link it reports is the one it was last asked for.  A    *)
(* wrong password is one that it never joins with.                         *)
(***************************************************************************)
EXTENDS Integers, Sequences, FiniteSets

CONSTANTS
  Networks,       \* the networks that may be in range
  Passwords,      \* the passwords that are typed, the empty one among them
  MaxSaved,       \* kMaximumSavedNetworks
  SettleTime,     \* from beginScan() to the scan itself
  ScanTimeout,    \* kWifiScanTimeoutMs
  ConnectTimeout, \* kWifiConnectTimeoutMs
  LossTime,       \* a link lost this long is given up
  Horizon         \* ages are counted up to here

NoPassword == "empty" \* the empty string

ASSUME WifiAssumption ==
  /\ IsFiniteSet(Networks) /\ NoPassword \in Passwords
  /\ MaxSaved \in Nat \ {0} /\ Horizon \in Nat
  /\ {SettleTime, ScanTimeout, ConnectTimeout, LossTime} \subseteq 1 .. Horizon

VARIABLES
  wifi,  \* the WifiService
  tried  \* what WiFi.begin() told the radio to join, until it is answered

wifiVars == <<wifi, tried>>

(* A network and the password for it *)
Credentials == Networks \X Passwords
NotTrying == <<>>

NoNetwork == "none"
Never == -1

WifiStates == {"Off", "Scanning", "ScanDone", "Connecting", "Connected", "Failed"}

(* Ages *)
Older(age) == IF age \in {Never, Horizon} THEN age ELSE age + 1
Expired(age, limit) == age >= limit

NewWifi(saved) ==
  [state |-> "Off", launched |-> FALSE, retries |-> 0, age |-> 0, lost |-> Never,
   found |-> {}, known |-> {}, saved |-> saved, active |-> NoNetwork,
   pending |-> NoPassword, remember |-> FALSE]

Members(seq) == {seq[i] : i \in 1 .. Len(seq)}

(* The networks of some credentials; hasSaved() *)
NetworksOf(saved) == {saved[i][1] : i \in 1 .. Len(saved)}
-----------------------------------------------------------------------------
(* The counters of a scan, an association or a link are kept as long as    *)
(* they are read: each of these sets its own when it begins.               *)
AtRest(w, state) ==
  [w EXCEPT !.state = state, !.launched = FALSE, !.retries = 0, !.age = 0, !.lost = Never]

(***************************************************************************)
(* What the application asks for.                                          *)
(***************************************************************************)
Idle(w) == w.state \notin {"Scanning", "Connecting"}

(* beginScan() returns whether it began one. *)
BeginScan(w) ==
  IF Idle(w)
    THEN [AtRest(w, "Scanning") EXCEPT !.found = {}, !.known = {}]
    ELSE w

(* Mutated: what an attempt was to remember stays when it is replaced. *)
ConnectKeepingPassword(w, network, password, remember) ==
  [AtRest(w, "Connecting") EXCEPT
     !.active = network, !.pending = IF w.remember THEN @ ELSE password,
     !.remember = w.remember \/ remember]

(* connect() interrupts whatever goes on. *)
Connect(w, network, password, remember) ==
  [AtRest(w, "Connecting") EXCEPT
     !.active = network, !.pending = password, !.remember = remember]

(* ... and asks the radio *)
JoinNetwork(network, password, remember) ==
  /\ wifi' = Connect(wifi, network, password, remember)
  /\ tried' = <<network, password>>

(* connectSaved(); remember() keeps one password of a network. *)
JoinSaved(network) ==
  \E i \in 1 .. Len(wifi.saved) :
    /\ wifi.saved[i][1] = network /\ JoinNetwork(network, wifi.saved[i][2], FALSE)

ForgetAll(w) == [w EXCEPT !.saved = <<>>]

Stop(w) ==
  [AtRest(w, "Off") EXCEPT !.found = {}, !.known = {}, !.active = NoNetwork,
                           !.pending = NoPassword, !.remember = FALSE]

(* remember(): a new password replaces the old, a new network the oldest. *)
Remember(saved, network, password) ==
  IF network \in NetworksOf(saved)
    THEN [i \in DOMAIN saved |->
            IF saved[i][1] = network THEN <<network, password>> ELSE saved[i]]
    ELSE Append(IF Len(saved) >= MaxSaved THEN Tail(saved) ELSE saved, <<network, password>>)
-----------------------------------------------------------------------------
(***************************************************************************)
(* poll()                                                                  *)
(***************************************************************************)
Failed(w) == AtRest(w, "Failed")

(* A scan that could not start, found nothing or failed is launched again, *)
(* twice.                                                                  *)
Retry(w) ==
  IF w.retries < 2 THEN [w EXCEPT !.retries = @ + 1, !.launched = FALSE, !.age = 0]
  ELSE Failed(w)

Launch ==
  /\ wifi.state = "Scanning" /\ ~wifi.launched
  /\ \/ ~Expired(wifi.age, SettleTime) /\ UNCHANGED wifi
     \/ /\ Expired(wifi.age, SettleTime)
        /\ \/ wifi' = [wifi EXCEPT !.launched = TRUE, !.age = 0]
           \/ wifi' = Retry(wifi)
  /\ UNCHANGED tried

(* finishScan(): networks without a name are left out, so none may remain. *)
FinishScan(w, visible) ==
  [AtRest(w, "ScanDone") EXCEPT !.found = visible,
                                !.known = visible \cap NetworksOf(w.saved)]

AwaitScan ==
  /\ wifi.state = "Scanning" /\ wifi.launched
  /\ \/ \E visible \in SUBSET Networks : wifi' = FinishScan(wifi, visible)
     \/ wifi' = Retry(wifi)
     \/ ~Expired(wifi.age, ScanTimeout) /\ UNCHANGED wifi
     \/ Expired(wifi.age, ScanTimeout) /\ wifi' = Failed(wifi)
  /\ UNCHANGED tried

(* The link is asked before the timeout is. *)
AwaitConnection ==
  /\ wifi.state = "Connecting"
  /\ \/ /\ wifi' = [wifi EXCEPT
             !.state = "Connected", !.lost = Never,
             !.pending = NoPassword, !.remember = FALSE,
             !.saved = IF wifi.remember THEN Remember(@, wifi.active, wifi.pending) ELSE @]
        /\ tried' = NotTrying
     \/ ~Expired(wifi.age, ConnectTimeout) /\ UNCHANGED wifiVars
     \/ /\ Expired(wifi.age, ConnectTimeout) /\ wifi' = Failed(wifi)
        /\ tried' = NotTrying

WatchLink ==
  /\ wifi.state = "Connected"
  /\ \/ wifi' = [wifi EXCEPT !.lost = Never]
     \/ wifi.lost = Never /\ wifi' = [wifi EXCEPT !.lost = 0]
     \/ wifi.lost # Never /\ ~Expired(wifi.lost, LossTime) /\ UNCHANGED wifi
     \/ wifi.lost # Never /\ Expired(wifi.lost, LossTime) /\ wifi' = Failed(wifi)
  /\ UNCHANGED tried

PollWifi ==
  \/ Launch \/ AwaitScan \/ AwaitConnection \/ WatchLink
  \/ wifi.state \in {"Off", "ScanDone", "Failed"} /\ UNCHANGED wifiVars

(* Time passes for the instants recorded in a state that reads them. *)
WifiAged(w) ==
  [w EXCEPT !.age = IF Idle(w) THEN @ ELSE Older(@),
            !.lost = IF w.state = "Connected" THEN Older(@) ELSE @]
-----------------------------------------------------------------------------
WifiTypeOK ==
  /\ wifi.state \in WifiStates /\ wifi.launched \in BOOLEAN
  /\ wifi.retries \in 0 .. 2 /\ wifi.age \in 0 .. Horizon
  /\ wifi.lost \in {Never} \cup 0 .. Horizon
  /\ wifi.known \subseteq wifi.found /\ wifi.found \subseteq Networks
  /\ wifi.saved \in Seq(Credentials) /\ Len(wifi.saved) <= MaxSaved
  /\ wifi.active \in Networks \cup {NoNetwork} /\ wifi.remember \in BOOLEAN
  /\ wifi.pending \in Passwords
  /\ tried \in Credentials \cup {NotTrying}
=============================================================================
