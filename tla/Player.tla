-------------------------------- MODULE Player --------------------------------
(***************************************************************************)
(* The audio player (android/linux/app/amr/player.cpp): player() starts    *)
(* the playback and waits on a condition; notify() runs on a binder thread *)
(* at an error or at the end, takes the player down and signals.  The      *)
(* media service calls notify for one event after the other.               *)
(***************************************************************************)
EXTENDS Naturals

CONSTANT MaxEvents  \* bound on the MEDIA_ERROR and MEDIA_PLAYBACK_COMPLETE events

VARIABLES
  play,       \* where player() is
  playState,  \* mPlayState
  playerFd,   \* mPlayerFd is not 0
  listening,  \* the listener is set
  note,       \* where notify() is
  events,     \* events the service has sent and notify has not been called for
  sentEvents, \* how many it has sent
  closes,     \* history: how often the file was closed
  unheard     \* history: a signal came before player() waited

playerVars == <<play, playState, playerFd, listening, note, events, sentEvents, closes, unheard>>

PlayerInit ==
  /\ play = "open" /\ playState = "NONE" /\ playerFd = FALSE /\ listening = FALSE
  /\ note = "idle" /\ events = 0 /\ sentEvents = 0 /\ closes = 0 /\ unheard = FALSE

noteVars == <<note, events, sentEvents, closes>>

-----------------------------------------------------------------------------
OpenFile ==
  /\ play = "open"
  /\ \/ play' = "prepare" /\ playerFd' = TRUE
     \/ play' = "failed" /\ UNCHANGED playerFd          \* mPlayerFd <= 0
  /\ UNCHANGED <<playState, listening, unheard, noteVars>>

\* setListener up to setVolume
Start ==
  /\ play = "prepare"
  /\ play' = "started" /\ listening' = TRUE
  /\ UNCHANGED <<playState, playerFd, unheard, noteVars>>

\* mPlayState is PLAYING, also when notify has been there already; then the wait
Playing ==
  /\ play = "started"
  /\ play' = "wait" /\ playState' = "PLAYING"
  /\ UNCHANGED <<playerFd, listening, unheard, noteVars>>

\* the service sends what it has only to a listener that is set
MediaEvent ==
  /\ listening /\ sentEvents < MaxEvents
  /\ events' = events + 1 /\ sentEvents' = sentEvents + 1
  /\ UNCHANGED <<play, playState, playerFd, listening, note, closes, unheard>>

TakeDown ==
  /\ note = "idle" /\ events > 0
  /\ events' = events - 1
  /\ listening' = FALSE /\ playState' = "STOP"
  /\ note' = "close"
  /\ UNCHANGED <<play, playerFd, sentEvents, closes, unheard>>

\* mutant: the file is closed whoever closed it before
CloseAlways ==
  /\ note = "close" /\ note' = "signal"
  /\ playerFd' = FALSE /\ closes' = closes + 1
  /\ UNCHANGED <<play, playState, listening, events, sentEvents, unheard>>

CloseFile ==
  /\ note = "close" /\ note' = "signal"
  /\ IF playerFd THEN playerFd' = FALSE /\ closes' = closes + 1 ELSE UNCHANGED <<playerFd, closes>>
  /\ UNCHANGED <<play, playState, listening, events, sentEvents, unheard>>

SignalEnd ==
  /\ note = "signal" /\ note' = "idle"
  /\ play' = IF play = "wait" THEN "returned" ELSE play
  /\ unheard' = (unheard \/ play = "started")
  /\ UNCHANGED <<playState, playerFd, listening, events, sentEvents, closes>>

Notify == TakeDown \/ CloseFile \/ SignalEnd
PlayerNext == OpenFile \/ Start \/ Playing \/ MediaEvent \/ Notify

-----------------------------------------------------------------------------
\* Once an event has come player() returns, having closed the file, and however many
\* events come the file is closed once; unless the signal came before player() waited.
\* (mSignal.wait without a predicate; the test of mPlayerFd in notify)
PlayerReturns == sentEvents > 0 ~> ([](play = "returned" /\ closes = 1) \/ unheard)
=============================================================================
