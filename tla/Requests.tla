------------------------------ MODULE Requests -------------------------------
(***************************************************************************)
(* What the REST API accepts and what becomes of it, in PC gateway mode:   *)
(*   - the mailboxes between the server's thread and the control loop      *)
(*     (ApiServer, src/src/api_server.cpp), on the PC and on the Pi,       *)
(*   - the loops that empty them (src/src/daemon.cpp), the configuration   *)
(*     file they write (saveConfig, src/src/config.cpp), and the Pi's part *)
(*     of the configuration, which the PC's loop sends on over HTTP        *)
(*     (src/src/gateway_status_client.cpp) before it goes on,              *)
(*   - operators at the pages of both machines, and both services being    *)
(*     stopped, restarted or killed at any point.                          *)
(*                                                                         *)
(* The server handles one request at a time and a mailbox is locked for    *)
(* one access, so a request may come between any two steps of a loop.  A   *)
(* configuration has the part that the Pi needs and all the rest, of which *)
(* piStatus.enabled matters here: without it the PC leaves the Pi alone.   *)
(***************************************************************************)
EXTENDS Naturals

CONSTANTS
  Managed,        \* values of the part that piManagedProjection() copies
  Videos,         \* videos that can be asked for
  None,           \* an empty mailbox, or no video
  Torn,           \* a file that was opened for writing and not written, or in part
  MaxPuts, MaxAsks, MaxStops   \* bounds: configurations, commands, stops

\* The rest of a configuration is what its operator wants, with piStatus.enabled
\* or ("alone") without it, or defaultConfig().
Configs == [managed : Managed, rest : {"mine", "alone", "default"}]

\* What an operator saves, or has in the file, on each of the machines.
Wanted(m) == {c \in Configs : c.rest \in (IF m = "pc" THEN {"mine", "alone"} ELSE {"mine"})}

ASSUME ConstantsAssumption ==
  /\ None \notin Configs \cup Videos /\ Torn \notin Configs
  /\ MaxPuts \in Nat /\ MaxAsks \in Nat /\ MaxStops \in Nat

VARIABLES
  pending,    \* pendingConfig_
  shown,      \* repeaterConfig_
  current,    \* config_ of the Daemon
  file,       \* the configuration file
  stage,      \* what each loop does next, or that the service is not running
  taken,      \* nextConfig
  fetched,    \* piConfig, while the PC changes the Pi's
  play, stop, \* pendingFallbackVideo_, pendingFallbackVideoStop_, on the PC
  player,     \* the video that the media process was last told to play
  accepted,   \* the last configuration each API has accepted \
  unsure,     \* machines that were stopped before it was saved|  for the
  unsaved,    \* machines whose file could not be written      |  proper-
  apart,      \* the PC's part and the Pi's may differ         |  ties
  last, open, \* the last command, and whether a stop waits   /
  left        \* what is left of each bound

config == <<pending, shown, current, file, taken, fetched>>
commands == <<play, stop, player, last, open>>
ghosts == <<accepted, unsure, unsaved, apart>>
vars == <<config, stage, commands, ghosts, left>>

Machines == {"pc", "pi"}
Stages == {"config", "fetch", "put", "show", "open", "write", "use", "play", "stop", "down"}

TypeOK ==
  /\ pending \in [Machines -> Configs \cup {None}]
  /\ shown \in [Machines -> Configs] /\ current \in [Machines -> Configs]
  /\ file \in [Machines -> Configs \cup {Torn}]
  /\ stage \in [Machines -> Stages]
  /\ taken \in [Machines -> Configs \cup {None}] /\ fetched \in Configs \cup {None}
  /\ play \in Videos \cup {None} /\ player \in Videos \cup {None}
  /\ stop \in BOOLEAN /\ open \in BOOLEAN /\ apart \in BOOLEAN
  /\ last \in Videos \cup {None, "either"}
  /\ accepted \in [Machines -> Configs]
  /\ unsure \subseteq Machines /\ unsaved \subseteq Machines
  /\ left \in [puts : 0..MaxPuts, asks : 0..MaxAsks, stops : 0..MaxStops]

Init ==
  \E c \in Wanted("pc"), d \in Wanted("pi") :
    /\ c.managed = d.managed
    /\ shown = [m \in Machines |-> IF m = "pc" THEN c ELSE d]
    /\ current = shown /\ file = shown
    /\ accepted = shown
    /\ pending = [m \in Machines |-> None] /\ taken = pending /\ fetched = None
    /\ stage = [m \in Machines |-> "config"]
    /\ play = None /\ stop = FALSE /\ player = None /\ last = None /\ open = FALSE
    /\ unsure = {} /\ unsaved = {} /\ apart = FALSE
    /\ left = [puts |-> MaxPuts, asks |-> MaxAsks, stops |-> MaxStops]

Runs(m) == stage[m] # "down"
Goes(m, from, to) == stage[m] = from /\ stage' = [stage EXCEPT ![m] = to]

-----------------------------------------------------------------------------
(* The requests: ApiServer::handleClient().                                 *)

\* PUT /api/config
Accept(m, c) ==
  /\ pending' = [pending EXCEPT ![m] = c]
  /\ shown' = [shown EXCEPT ![m] = c]
  /\ accepted' = [accepted EXCEPT ![m] = c]
  /\ unsure' = unsure \ {m}

\* An operator saves the page of one of the machines.
Put(m, c) ==
  /\ Runs(m) /\ left.puts > 0
  /\ Accept(m, c)
  /\ apart' = (apart \/ m = "pi")
  /\ left' = [left EXCEPT !.puts = @ - 1]
  /\ UNCHANGED <<unsaved, current, file, taken, fetched, stage, commands>>

\* POST /api/fallback/play, of a new video: the box holds the last one.
AskPlay(v) ==
  /\ Runs("pc") /\ left.asks > 0
  /\ play' = v
  /\ last' = IF open THEN "either" ELSE v
  /\ left' = [left EXCEPT !.asks = @ - 1]
  /\ UNCHANGED <<config, stage, stop, player, open, ghosts>>

\* POST /api/fallback/stop
AskStop ==
  /\ Runs("pc") /\ left.asks > 0
  /\ stop' = TRUE /\ open' = TRUE
  /\ last' = IF play # None /\ stage["pc"] = "stop" THEN "either" ELSE None
  /\ left' = [left EXCEPT !.asks = @ - 1]
  /\ UNCHANGED <<config, stage, play, player, ghosts>>

-----------------------------------------------------------------------------
(* The control loops.                                                       *)

\* Fault: compares with the configuration of the API, which is the new one.
ChangedFromShown(c) == shown["pc"].managed # c.managed

\* piManagedConfigChanged()
Changed(c) == current["pc"].managed # c.managed

\* shouldPushPiConfig, and the change that is not sent, now or later, since the
\* next configuration is compared with this one.
PushesPi(m, c) == m = "pc" /\ c.rest # "alone" /\ Changed(c)
LeavesPi(m, c) == m = "pc" /\ c.rest = "alone" /\ Changed(c)

\* Fault: the box is emptied when the configuration is in use.
TakeLater(m) ==
  /\ pending[m] # None
  /\ Goes(m, "config", IF PushesPi(m, pending[m]) THEN "fetch" ELSE "show")
  /\ taken' = [taken EXCEPT ![m] = pending[m]]
  /\ apart' = (apart \/ LeavesPi(m, pending[m]))
  /\ UNCHANGED <<pending, shown, current, file, fetched, commands, accepted, unsure, unsaved, left>>

\* takePendingConfig(), and whether the Pi is told.
Take(m) ==
  /\ pending[m] # None
  /\ Goes(m, "config", IF PushesPi(m, pending[m]) THEN "fetch" ELSE "show")
  /\ taken' = [taken EXCEPT ![m] = pending[m]]
  /\ pending' = [pending EXCEPT ![m] = None]
  /\ apart' = (apart \/ LeavesPi(m, pending[m]))
  /\ UNCHANGED <<shown, current, file, fetched, commands, accepted, unsure, unsaved, left>>

NothingToTake(m) ==
  /\ pending[m] = None
  /\ Goes(m, "config", IF m = "pc" THEN "play" ELSE "config")
  /\ UNCHANGED <<config, commands, ghosts, left>>

\* fetchConfig(), or the projection if the Pi does not answer in time.
Fetch ==
  /\ Goes("pc", "fetch", "put")
  /\ \/ Runs("pi") /\ fetched' = shown["pi"]
     \/ fetched' = [managed |-> taken["pc"].managed, rest |-> "default"]
  /\ UNCHANGED <<pending, shown, current, file, taken, commands, ghosts, left>>

\* mergePiManagedConfig()
Merged == [fetched EXCEPT !.managed = taken["pc"].managed]

\* putConfig(): tried once.  Whether the answer comes back makes no difference.
PutPi ==
  /\ Goes("pc", "put", "show")
  /\ \/ Runs("pi") /\ Accept("pi", Merged) /\ apart' = FALSE
     \/ apart' = TRUE /\ UNCHANGED <<pending, shown, accepted, unsure>>
  /\ fetched' = None
  /\ UNCHANGED <<current, file, taken, commands, unsaved, left>>

\* updateConfig(), before the file is written.
Show(m) ==
  /\ Goes(m, "show", "open")
  /\ shown' = [shown EXCEPT ![m] = taken[m]]
  /\ UNCHANGED <<pending, current, file, taken, fetched, commands, ghosts, left>>

\* saveConfig(): opening the file empties it.
Open(m) ==
  /\ Goes(m, "open", "write")
  /\ file' = [file EXCEPT ![m] = Torn]
  /\ UNCHANGED <<pending, shown, current, taken, fetched, commands, ghosts, left>>

Write(m) ==
  /\ Goes(m, "write", "use")
  /\ file' = [file EXCEPT ![m] = taken[m]]
  /\ unsaved' = unsaved \ {m}
  /\ UNCHANGED <<pending, shown, current, taken, fetched, commands, accepted, unsure, apart, left>>

\* No space is left, say: nobody looks, and the loop goes on.
WriteFails(m) ==
  /\ Goes(m, "write", "use")
  /\ unsaved' = unsaved \cup {m}
  /\ UNCHANGED <<config, commands, accepted, unsure, apart, left>>

\* Fault: uses what is in the box by now.
UseLatest(m) ==
  /\ Goes(m, "use", IF m = "pc" THEN "play" ELSE "config")
  /\ current' = [current EXCEPT ![m] = shown[m]]
  /\ taken' = [taken EXCEPT ![m] = None]
  /\ UNCHANGED <<pending, shown, file, fetched, commands, ghosts, left>>

Use(m) ==
  /\ Goes(m, "use", IF m = "pc" THEN "play" ELSE "config")
  /\ current' = [current EXCEPT ![m] = taken[m]]
  /\ shown' = [shown EXCEPT ![m] = taken[m]]
  /\ taken' = [taken EXCEPT ![m] = None]
  /\ UNCHANGED <<pending, file, fetched, commands, ghosts, left>>

\* takePendingFallbackVideo()
TakePlay ==
  /\ Goes("pc", "play", "stop")
  /\ player' = IF play = None THEN player ELSE play
  /\ play' = None
  /\ UNCHANGED <<config, stop, last, open, ghosts, left>>

\* Fault: the flag stays.
TakeStopKeeps ==
  /\ Goes("pc", "stop", "config")
  /\ player' = IF stop THEN None ELSE player
  /\ open' = FALSE
  /\ UNCHANGED <<config, stop, play, last, ghosts, left>>

\* takePendingFallbackVideoStop(), after the play of the same iteration.
TakeStop ==
  /\ Goes("pc", "stop", "config")
  /\ player' = IF stop THEN None ELSE player
  /\ stop' = FALSE /\ open' = FALSE
  /\ UNCHANGED <<config, play, last, ghosts, left>>

Loop(m) ==
  \/ Take(m) \/ NothingToTake(m) \/ Show(m) \/ Open(m) \/ Write(m) \/ WriteFails(m) \/ Use(m)
  \/ m = "pc" /\ (Fetch \/ PutPi \/ TakePlay \/ TakeStop)

-----------------------------------------------------------------------------
(* The services.                                                            *)

Saving == {"fetch", "put", "show", "open", "write"}

\* Whatever is in the boxes is gone, and so is what was not saved yet.  A
\* service that is stopped leaves its loop between two iterations, one that is
\* killed anywhere.
Stop(m) ==
  /\ Runs(m) /\ left.stops > 0
  /\ stage' = [stage EXCEPT ![m] = "down"]
  /\ pending' = [pending EXCEPT ![m] = None]
  /\ unsure' = IF pending[m] # None \/ stage[m] \in Saving THEN unsure \cup {m} ELSE unsure
  /\ apart' = (apart \/ pending[m] # None \/ stage[m] \in Saving)
  /\ IF m = "pc" THEN play' = None /\ stop' = FALSE /\ player' = None /\ last' = None /\ open' = FALSE
                 ELSE UNCHANGED commands
  /\ taken' = [taken EXCEPT ![m] = None]
  /\ fetched' = IF m = "pc" THEN None ELSE fetched
  /\ left' = [left EXCEPT !.stops = @ - 1]
  /\ UNCHANGED <<shown, current, file, accepted, unsaved>>

\* main(): a file that cannot be read keeps the service from starting.
Start(m) ==
  /\ ~Runs(m) /\ file[m] # Torn
  /\ Goes(m, "down", "config")
  /\ shown' = [shown EXCEPT ![m] = file[m]]
  /\ current' = [current EXCEPT ![m] = file[m]]
  /\ UNCHANGED <<pending, file, taken, fetched, commands, ghosts, left>>

Next ==
  \/ \E m \in Machines : \E c \in Wanted(m) : Put(m, c)
  \/ \E v \in Videos : AskPlay(v)
  \/ AskStop
  \/ \E m \in Machines : Loop(m) \/ Stop(m) \/ Start(m)

\* The loops go on, and systemd restarts what has stopped.
Spec == Init /\ [][Next]_vars /\ \A m \in Machines : WF_vars(Loop(m)) /\ WF_vars(Start(m))

-----------------------------------------------------------------------------
(* What is promised for a request that was accepted.                        *)

\* The configuration a machine works with is the one it would start with
\* again, except while it writes the next, or after it failed to write one:
\* whatever was in use when a machine is killed comes back with it.
RunningIsSaved ==
  \A m \in Machines :
    Runs(m) /\ m \notin unsaved /\ stage[m] \notin {"write", "use"} => file[m] = current[m]

\* However many configurations come while one is being saved: the last that was
\* accepted is in use, in the file and on the page in the end, unless the
\* service stopped before it was saved (or the file could not be written).
LastAcceptedWins ==
  <>[](\A m \in Machines :
         Runs(m) /\ m \notin unsure =>
           /\ current[m] = accepted[m] /\ shown[m] = accepted[m]
           /\ m \in unsaved \/ file[m] = accepted[m])

\* The Pi ends up with the part of the PC's configuration that is meant for it,
\* unless the one attempt to send it failed, it was changed while the PC had its
\* piStatus switched off (switching it on does not make up for it), the Pi was
\* configured at its own page, or a machine stopped in the middle.
PiAgrees ==
  <>[](\A m \in Machines : Runs(m)) =>
    <>[](apart \/ current["pi"].managed = current["pc"].managed)

\* When everything accepted has been carried out, what is played is what was
\* asked for last.  Two requests may change places: a play that comes while a
\* stop waits, since the loop takes plays first, and a play and a stop that
\* both come between the two.
LastCommandWins ==
  play = None /\ ~open /\ stage["pc"] = "config" => last \in {player, "either"}

=============================================================================
