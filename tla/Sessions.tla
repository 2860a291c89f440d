------------------------------ MODULE Sessions ------------------------------
(***************************************************************************)
(* The life of the sessions of one running WijjitSSH server: admission to  *)
(* the SessionRegistry, the callbacks asyncssh makes on a                  *)
(* _WijjitSSHSession, the app task it starts, its IdleTimer, the _close    *)
(* coroutine that is the single way down, and the drain that stop() runs   *)
(* over all of them before it disconnects what is left.                    *)
(*                                                                         *)
(* One action is one uninterrupted run of the event loop: a callback, or   *)
(* the part of a coroutine between two awaits.  The client, the network    *)
(* and the app are external and take their steps in any order.             *)
(***************************************************************************)
EXTENDS Naturals, FiniteSets

CONSTANTS
    Session,        \* session objects, each opened at most once
    Conn,           \* authenticated connections, all up when we begin
    ConnOf,         \* the connection each session lives inside
    MaxSessions,    \* config.max_sessions
    ShutdownGrace,  \* config.shutdown_grace, in ticks
    StopGraces,     \* graces stop() may be called with, in ticks
    Timeouts,       \* which of IdleTimer's deadlines are enabled
    LateStart       \* asyncssh serves a shell request after our own close()

Deadlines == {"idle_timeout", "session_timeout"}

ASSUME SessionsAssumption ==
    /\ IsFiniteSet(Session)
    /\ ConnOf \in [Session -> Conn]
    /\ MaxSessions \in Nat \ {0}
    /\ ShutdownGrace \in Nat
    /\ StopGraces \subseteq Nat
    /\ Timeouts \subseteq Deadlines
    /\ LateStart \in BOOLEAN

VARIABLES
    conn,        \* "up" | "closing" (disconnect() called) | "lost"
    stage,       \* how far asyncssh has taken the session object
    registered,  \* SessionRegistry._sessions
    chan,        \* _chan, seen from our side of the channel
    pty,         \* _pty_requested
    app,         \* _task: the app's task and its done callback
    screen,      \* what the client's terminal shows
    timers,      \* the deadlines IdleTimer has armed
    fired,       \* IdleTimer._fired
    closing,     \* _closing: where the _close coroutine is
    reason,      \* the reason _close was started with
    waited,      \* ticks _close has waited for the app, up to ShutdownGrace
    aborted,     \* history: abort() was called on the session
    stop,        \* where stop() is
    drained,     \* SessionRegistry._drained is set
    drainLeft    \* ticks left of the grace drain() was called with

vars == << conn, stage, registered, chan, pty, app, screen, timers, fired,
           closing, reason, waited, aborted, stop, drained, drainLeft >>

-----------------------------------------------------------------------------
Stages  == {"new", "refused", "admitted", "started"}
Chans   == {"none", "open", "closed", "lost"}
Apps    == {"none", "running", "cancelled", "exited", "done"}
Closing == {"no", "scheduled", "waiting", "cancelling", "done"}
Reasons == {"none", "app_exited", "connection_lost", "server_shutdown"}
           \union Deadlines
Stops   == {"serving", "draining", "disconnecting", "stopped"}

(* The reasons whose request_close() carries a text for the client.         *)
HasMessage == {"server_shutdown"} \union Deadlines

(* Mutant: the grace is given to the session nobody is watching.            *)
GraceSwapped(s) == IF reason[s] = "connection_lost" THEN ShutdownGrace ELSE 0

(* The grace _close allows the app.                                         *)
Grace(s) == IF reason[s] = "connection_lost" THEN 0 ELSE ShutdownGrace

AppLive(s) == app[s] \in {"running", "cancelled"}

(* Both ends of the channel can still exchange data.                        *)
Reachable(s) == chan[s] = "open" /\ conn[ConnOf[s]] = "up"

(* asyncssh may serve a channel request it had in flight when we closed.    *)
Requestable(s) ==
    /\ stage[s] = "admitted"
    /\ conn[ConnOf[s]] = "up"
    /\ chan[s] = "open" \/ (LateStart /\ chan[s] = "closed")

Init ==
    /\ conn = [c \in Conn |-> "up"]
    /\ stage = [s \in Session |-> "new"]
    /\ registered = {}
    /\ chan = [s \in Session |-> "none"]
    /\ pty = [s \in Session |-> FALSE]
    /\ app = [s \in Session |-> "none"]
    /\ screen = [s \in Session |-> "ordinary"]
    /\ timers = [s \in Session |-> {}]
    /\ fired = [s \in Session |-> FALSE]
    /\ closing = [s \in Session |-> "no"]
    /\ reason = [s \in Session |-> "none"]
    /\ waited = [s \in Session |-> 0]
    /\ aborted = [s \in Session |-> FALSE]
    /\ stop = "serving"
    /\ drained = FALSE
    /\ drainLeft = 0

-----------------------------------------------------------------------------
(* Methods called by several handlers.                                      *)

(* request_close(why) on every session of S: idempotent, disarms the timer  *)
(* and schedules _close.                                                    *)
RequestClose(S, why) ==
    LET Asked == {s \in S : closing[s] = "no"}
    IN  /\ timers' = [s \in Session |-> IF s \in Asked THEN {} ELSE timers[s]]
        /\ closing' = [s \in Session |->
                          IF s \in Asked THEN "scheduled" ELSE closing[s]]
        /\ reason' = [s \in Session |-> IF s \in Asked THEN why ELSE reason[s]]

(* SessionRegistry.release on every session of S; the last one out wakes a  *)
(* waiting drain.                                                           *)
Release(S) ==
    /\ registered' = registered \ S
    /\ drained' = (drained \/ (stop = "draining" /\ registered \subseteq S))

(* chan.close() on every session of S that has a channel.                   *)
CloseChannel(S) ==
    chan' = [s \in Session |->
                IF s \in S /\ chan[s] = "open" THEN "closed" ELSE chan[s]]

(* Mutant: the tail of _close forgets to deregister.                        *)
FinishCloseLeaking(s) ==
    /\ closing' = [closing EXCEPT ![s] = "done"]
    /\ CloseChannel({s})
    /\ UNCHANGED << registered, drained >>

(* The tail of _close: say goodbye, close the channel, deregister.          *)
FinishClose(s) ==
    /\ closing' = [closing EXCEPT ![s] = "done"]
    /\ CloseChannel({s})
    /\ Release({s})

-----------------------------------------------------------------------------
(* Callbacks of the connection and of the channel.                          *)

(* Mutant: > where try_admit has >=.                                        *)
FullOffByOne == Cardinality(registered) > MaxSessions

(* try_admit() finds the registry full.                                     *)
Full == Cardinality(registered) >= MaxSessions

(* session_requested(): try_admit registers the session or it is refused.   *)
SessionRequested(s) ==
    /\ stage[s] = "new"
    /\ conn[ConnOf[s]] = "up"
    /\ IF Full
       THEN /\ stage' = [stage EXCEPT ![s] = "refused"]
            /\ UNCHANGED registered
       ELSE /\ stage' = [stage EXCEPT ![s] = "admitted"]
            /\ registered' = registered \union {s}
    /\ UNCHANGED << conn, chan, pty, app, screen, timers, fired, closing,
                    reason, waited, aborted, stop, drained, drainLeft >>

(* connection_made(chan), a tick after session_requested().                 *)
ChannelMade(s) ==
    /\ stage[s] = "admitted"
    /\ chan[s] = "none"
    /\ chan' = [chan EXCEPT ![s] = "open"]
    /\ UNCHANGED << conn, stage, registered, pty, app, screen, timers, fired,
                    closing, reason, waited, aborted, stop, drained,
                    drainLeft >>

PtyRequested(s) ==
    /\ Requestable(s)
    /\ ~pty[s]
    /\ pty' = [pty EXCEPT ![s] = TRUE]
    /\ UNCHANGED << conn, stage, registered, chan, app, screen, timers, fired,
                    closing, reason, waited, aborted, stop, drained,
                    drainLeft >>

(* session_started() with no pty, or whose app factory raises: _fail tells  *)
(* the client, closes the channel and gives the slot back.                  *)
StartFails(s) ==
    /\ Requestable(s)
    /\ stage' = [stage EXCEPT ![s] = "started"]
    /\ CloseChannel({s})
    /\ Release({s})
    /\ UNCHANGED << conn, pty, app, screen, timers, fired, closing, reason,
                    waited, aborted, stop, drainLeft >>

(* session_started() that gets its app: the task runs and takes over the    *)
(* terminal, and both deadlines are armed.                                  *)
StartSucceeds(s) ==
    /\ Requestable(s)
    /\ pty[s]
    /\ stage' = [stage EXCEPT ![s] = "started"]
    /\ app' = [app EXCEPT ![s] = "running"]
    /\ screen' = [screen EXCEPT ![s] = IF Reachable(s) THEN "tui" ELSE @]
    /\ timers' = [timers EXCEPT ![s] = Timeouts]
    /\ UNCHANGED << conn, registered, chan, pty, fired, closing, reason,
                    waited, aborted, stop, drained, drainLeft >>

(* IdleTimer.poke(): rearm the idle deadline, unless one has fired.  (When  *)
(* it has nothing to do nothing happens, and we leave that out.)            *)
Poke(s) ==
    /\ ~fired[s]
    /\ "idle_timeout" \in Timeouts
    /\ timers' = [timers EXCEPT ![s] = @ \union {"idle_timeout"}]

(* data_received(): every byte pokes the timer, whatever the session is at. *)
DataReceived(s) ==
    /\ stage[s] = "started"
    /\ Reachable(s)
    /\ Poke(s)
    /\ UNCHANGED << conn, stage, registered, chan, pty, app, screen, fired,
                    closing, reason, waited, aborted, stop, drained,
                    drainLeft >>

(* Mutant: connection_lost() asks for nothing.                              *)
ChannelLostUnnoticed(s) ==
    /\ chan[s] \in {"open", "closed"}
    /\ conn[ConnOf[s]] # "lost"
    /\ chan' = [chan EXCEPT ![s] = "lost"]
    /\ UNCHANGED << conn, stage, registered, pty, app, screen, timers, fired,
                    closing, reason, waited, aborted, stop, drained,
                    drainLeft >>

(* The client closes the channel, or answers our close: connection_lost().  *)
ChannelLost(s) ==
    /\ chan[s] \in {"open", "closed"}
    /\ conn[ConnOf[s]] # "lost"
    /\ chan' = [chan EXCEPT ![s] = "lost"]
    /\ RequestClose({s}, "connection_lost")
    /\ UNCHANGED << conn, stage, registered, pty, app, screen, fired, waited,
                    aborted, stop, drained, drainLeft >>

(* The transport goes: asyncssh calls connection_lost() on every channel of *)
(* the connection in one run.  A session it has just requested is given its *)
(* channel first.                                                           *)
ConnectionLost(c) ==
    LET Orphans == {s \in Session : ConnOf[s] = c /\ chan[s] \in {"open", "closed"}}
    IN  /\ conn[c] # "lost"
        /\ \A s \in Session :
              ConnOf[s] = c /\ stage[s] = "admitted" => chan[s] # "none"
        /\ conn' = [conn EXCEPT ![c] = "lost"]
        /\ chan' = [s \in Session |-> IF s \in Orphans THEN "lost" ELSE chan[s]]
        /\ RequestClose(Orphans, "connection_lost")
        /\ UNCHANGED << stage, registered, pty, app, screen, fired, waited,
                        aborted, stop, drained, drainLeft >>

-----------------------------------------------------------------------------
(* The deadlines, the app and _close.                                       *)

(* _expire(d): first deadline wins, disarms the other, asks for the close.  *)
DeadlineExpires(s, d) ==
    /\ d \in timers[s]
    /\ ~fired[s]
    /\ fired' = [fired EXCEPT ![s] = TRUE]
    /\ timers' = [timers EXCEPT ![s] = {}]
    /\ IF closing[s] = "no"
       THEN /\ closing' = [closing EXCEPT ![s] = "scheduled"]
            /\ reason' = [reason EXCEPT ![s] = d]
       ELSE UNCHANGED << closing, reason >>
    /\ UNCHANGED << conn, stage, registered, chan, pty, app, screen, waited,
                    aborted, stop, drained, drainLeft >>

(* The app's task ends.  If it quit or crashed its own cleanup gives the    *)
(* terminal back, as long as there is a channel to write to.  If it was     *)
(* cancelled the cleanup may be skipped, and the frame stays.               *)
AppExits(s) ==
    /\ AppLive(s)
    /\ app' = [app EXCEPT ![s] = "exited"]
    /\ \/ screen' = [screen EXCEPT ![s] = IF Reachable(s) THEN "ordinary" ELSE @]
       \/ app[s] = "cancelled" /\ UNCHANGED screen
    /\ UNCHANGED << conn, stage, registered, chan, pty, timers, fired, closing,
                    reason, waited, aborted, stop, drained, drainLeft >>

(* Mutant: a reason that is not one of the documented slugs.                *)
AppFinishedMisnamed(s) ==
    /\ app[s] = "exited"
    /\ app' = [app EXCEPT ![s] = "done"]
    /\ RequestClose({s}, "app_finished")
    /\ UNCHANGED << conn, stage, registered, chan, pty, screen, fired, waited,
                    aborted, stop, drained, drainLeft >>

(* _app_finished(), the task's done callback.                               *)
AppFinished(s) ==
    /\ app[s] = "exited"
    /\ app' = [app EXCEPT ![s] = "done"]
    /\ RequestClose({s}, "app_exited")
    /\ UNCHANGED << conn, stage, registered, chan, pty, screen, fired, waited,
                    aborted, stop, drained, drainLeft >>

(* Mutant: _close goes straight to the end, without waiting for the app.    *)
CloseBeginsHasty(s) ==
    /\ closing[s] = "scheduled"
    /\ chan[s] # "none"
    /\ FinishClose(s)
    /\ UNCHANGED << conn, stage, pty, app, screen, timers, fired, reason,
                    waited, aborted, stop, drainLeft >>

(* Mutant: _close cancels the app at once instead of asking it.             *)
CloseBeginsImpatient(s) ==
    /\ closing[s] = "scheduled"
    /\ chan[s] # "none"
    /\ IF AppLive(s)
       THEN /\ closing' = [closing EXCEPT ![s] = "cancelling"]
            /\ app' = [app EXCEPT ![s] = "cancelled"]
            /\ UNCHANGED << registered, chan, drained >>
       ELSE FinishClose(s) /\ UNCHANGED app
    /\ UNCHANGED << conn, stage, pty, screen, timers, fired, reason,
                    waited, aborted, stop, drainLeft >>

(* _close starts: with an app and a grace it tells the app to quit and      *)
(* waits; with no app, or one that has ended already, it goes straight to   *)
(* the end.  The event loop is first in, first out, and asyncssh scheduled  *)
(* connection_made() before anybody could ask for the close.                *)
CloseBegins(s) ==
    /\ closing[s] = "scheduled"
    /\ chan[s] # "none"
    /\ IF app[s] # "none" /\ Grace(s) > 0
       THEN /\ closing' = [closing EXCEPT ![s] = "waiting"]
            /\ UNCHANGED << registered, chan, drained >>
       ELSE /\ ~AppLive(s)
            /\ FinishClose(s)
    /\ UNCHANGED << conn, stage, pty, app, screen, timers, fired, reason,
                    waited, aborted, stop, drainLeft >>

(* The app has ended within its grace.                                      *)
CloseSeesExit(s) ==
    /\ closing[s] = "waiting"
    /\ ~AppLive(s)
    /\ FinishClose(s)
    /\ UNCHANGED << conn, stage, pty, app, screen, timers, fired, reason,
                    waited, aborted, stop, drainLeft >>

(* Mutant: _close cancels the app but does not wait for its cleanup.        *)
CloseCancelsUnawaited(s) ==
    /\ AppLive(s)
    /\ \/ closing[s] = "scheduled" /\ Grace(s) = 0
       \/ closing[s] = "waiting" /\ waited[s] >= Grace(s)
    /\ app' = [app EXCEPT ![s] = "cancelled"]
    /\ FinishClose(s)
    /\ UNCHANGED << conn, stage, pty, screen, timers, fired, reason, waited,
                    aborted, stop, drainLeft >>

(* It has not, or has none: cancel it, and wait for as long as that takes.  *)
CloseCancels(s) ==
    /\ AppLive(s)
    /\ \/ closing[s] = "scheduled" /\ Grace(s) = 0
       \/ closing[s] = "waiting" /\ waited[s] >= Grace(s)
    /\ closing' = [closing EXCEPT ![s] = "cancelling"]
    /\ app' = [app EXCEPT ![s] = "cancelled"]
    /\ UNCHANGED << conn, stage, registered, chan, pty, screen, timers, fired,
                    reason, waited, aborted, stop, drained, drainLeft >>

CloseAfterCancel(s) ==
    /\ closing[s] = "cancelling"
    /\ ~AppLive(s)
    /\ FinishClose(s)
    /\ UNCHANGED << conn, stage, pty, app, screen, timers, fired, reason,
                    waited, aborted, stop, drainLeft >>

-----------------------------------------------------------------------------
(* stop(): drain the registry, then disconnect whatever is still connected. *)

(* disconnect() on every live connection.                                   *)
DisconnectAll ==
    conn' = [c \in Conn |-> IF conn[c] = "up" THEN "closing" ELSE conn[c]]

(* abort() on every session of S: cancel the app, if any, close the channel. *)
Abort(S) ==
    /\ app' = [s \in Session |->
                  IF s \in S /\ app[s] = "running" THEN "cancelled" ELSE app[s]]
    /\ CloseChannel(S)
    /\ aborted' = [s \in Session |-> aborted[s] \/ s \in S]

(* Mutant: the stragglers are aborted but keep their slots.                 *)
AbortWithoutRelease ==
    /\ Abort(registered)
    /\ UNCHANGED registered

(* abort() and release() on every session still registered.                 *)
AbortStragglers ==
    /\ Abort(registered)
    /\ registered' = {}

(* Nobody to drain: straight on to the connections.                         *)
StopWithNobody ==
    /\ stop = "serving"
    /\ registered = {}
    /\ stop' = "disconnecting"
    /\ DisconnectAll
    /\ UNCHANGED << stage, registered, chan, pty, app, screen, timers, fired,
                    closing, reason, waited, aborted, drained, drainLeft >>

(* drain() asks every registered session to close, and waits.               *)
StopDrains ==
    /\ stop = "serving"
    /\ registered # {}
    /\ stop' = "draining"
    /\ drainLeft' \in StopGraces \ {0}
    /\ RequestClose(registered, "server_shutdown")
    /\ UNCHANGED << conn, stage, registered, chan, pty, app, screen, fired,
                    waited, aborted, drained >>

(* With no grace drain() asks and aborts in one run.                        *)
StopForces ==
    /\ stop = "serving"
    /\ registered # {}
    /\ 0 \in StopGraces
    /\ drainLeft' = 0
    /\ stop' = "disconnecting"
    /\ RequestClose(registered, "server_shutdown")
    /\ AbortStragglers
    /\ DisconnectAll
    /\ UNCHANGED << stage, pty, screen, fired, waited, drained >>

(* Mutant: drain() waits for the registry to empty and for nothing else.    *)
DrainEndsOnlyWhenEmpty ==
    /\ stop = "draining"
    /\ drained
    /\ stop' = "disconnecting"
    /\ AbortStragglers
    /\ DisconnectAll
    /\ drained' = FALSE
    /\ UNCHANGED << stage, pty, screen, timers, fired, closing, reason, waited,
                    drainLeft >>

(* drain() wakes, because the registry emptied or its grace ran out.        *)
DrainEnds ==
    /\ stop = "draining"
    /\ drained \/ drainLeft = 0
    /\ stop' = "disconnecting"
    /\ AbortStragglers
    /\ DisconnectAll
    /\ drained' = FALSE
    /\ UNCHANGED << stage, pty, screen, timers, fired, closing, reason, waited,
                    drainLeft >>

(* wait_closed() returns once every connection is gone.                     *)
StopReturns ==
    /\ stop = "disconnecting"
    /\ \A c \in Conn : conn[c] = "lost"
    /\ stop' = "stopped"
    /\ UNCHANGED << conn, stage, registered, chan, pty, app, screen, timers,
                    fired, closing, reason, waited, aborted, drained,
                    drainLeft >>

(* A tick of the clock, for every wait that is running.                     *)
Tick ==
    LET Waiters == {s \in Session : closing[s] = "waiting" /\ waited[s] < ShutdownGrace}
        Draining == stop = "draining" /\ drainLeft > 0
    IN  /\ Waiters # {} \/ Draining
        /\ waited' = [s \in Session |->
                         IF s \in Waiters THEN waited[s] + 1 ELSE waited[s]]
        /\ drainLeft' = IF Draining THEN drainLeft - 1 ELSE drainLeft
        /\ UNCHANGED << conn, stage, registered, chan, pty, app, screen,
                        timers, fired, closing, reason, aborted, stop, drained >>

(* The server has stopped and nothing of it is left running.                *)
Stopped ==
    /\ stop = "stopped"
    /\ \A s \in Session : /\ ~AppLive(s)
                          /\ closing[s] \in {"no", "done"}
    /\ UNCHANGED vars

SessionStep(s) ==
    \/ SessionRequested(s) \/ ChannelMade(s) \/ PtyRequested(s)
    \/ StartFails(s) \/ StartSucceeds(s) \/ DataReceived(s) \/ ChannelLost(s)
    \/ \E d \in Deadlines : DeadlineExpires(s, d)
    \/ AppExits(s) \/ AppFinished(s)
    \/ CloseBegins(s) \/ CloseSeesExit(s) \/ CloseCancels(s)
    \/ CloseAfterCancel(s)

StopStep == StopWithNobody \/ StopDrains \/ StopForces \/ DrainEnds \/ StopReturns

Next ==
    \/ \E s \in Session : SessionStep(s)
    \/ \E c \in Conn : ConnectionLost(c)
    \/ StopStep
    \/ Tick
    \/ Stopped

(* What the event loop guarantees: a scheduled callback or coroutine runs,  *)
(* time passes, a cancelled task ends, a disconnected transport goes.       *)
(* Nothing is assumed of clients, of apps left alone, or of stop() being    *)
(* called.                                                                  *)
Fairness ==
    /\ \A s \in Session :
          /\ WF_vars(ChannelMade(s))
          /\ WF_vars(AppFinished(s))
          /\ WF_vars(app[s] = "cancelled" /\ AppExits(s))
          /\ WF_vars(CloseBegins(s))
          /\ WF_vars(CloseSeesExit(s))
          /\ WF_vars(CloseCancels(s))
          /\ WF_vars(CloseAfterCancel(s))
    /\ \A c \in Conn : WF_vars(conn[c] = "closing" /\ ConnectionLost(c))
    /\ WF_vars(DrainEnds)
    /\ WF_vars(StopReturns)
    /\ WF_vars(Tick)

Spec == Init /\ [][Next]_vars /\ Fairness

-----------------------------------------------------------------------------
TypeOK ==
    /\ conn \in [Conn -> {"up", "closing", "lost"}]
    /\ stage \in [Session -> Stages]
    /\ registered \subseteq Session
    /\ chan \in [Session -> Chans]
    /\ pty \in [Session -> BOOLEAN]
    /\ app \in [Session -> Apps]
    /\ screen \in [Session -> {"ordinary", "tui"}]
    /\ timers \in [Session -> SUBSET Deadlines]
    /\ fired \in [Session -> BOOLEAN]
    /\ closing \in [Session -> Closing]
    /\ reason \in [Session -> Reasons]
    /\ waited \in [Session -> 0 .. ShutdownGrace]
    /\ aborted \in [Session -> BOOLEAN]
    /\ stop \in Stops
    /\ drained \in BOOLEAN
    /\ drainLeft \in Nat

(* max_sessions is a memory bound: never more apps at work than slots, even *)
(* while sessions end and others are admitted in their place.  An aborted   *)
(* app has lost its slot, and is the only kind that may outlive it.         *)
AppsBounded ==
    Cardinality({s \in Session : AppLive(s) /\ ~aborted[s]}) <= MaxSessions

(* The registry is the source of truth for what is live: whatever path ends *)
(* a session, its app has ended before its slot is given back, unless a     *)
(* drain took the slot away by force.                                       *)
LiveAppsAreRegistered ==
    \A s \in Session : AppLive(s) => s \in registered \/ aborted[s]

(* A client that can be told is left looking at a dead frame only if its    *)
(* session was aborted, or its app had the whole grace and was cancelled by *)
(* its _close: whoever quits in time finds a channel to give the terminal   *)
(* back over, whatever else closes channels, cancels or drains meanwhile.   *)
CancelledInTurn(s) ==
    closing[s] \in {"cancelling", "done"} /\ waited[s] >= ShutdownGrace

FrozenOnlyAfterGrace ==
    \A s \in Session :
        screen[s] = "tui" /\ ~AppLive(s) /\ chan[s] # "lost" =>
            aborted[s] \/ CancelledInTurn(s)

(* Once the drain is over no session holds a slot, and none can get one.    *)
DrainLeavesNobody == stop \in {"disconnecting", "stopped"} => registered = {}

(* The tail of _close has a text for a client that can read it.             *)
Goodbye(s) ==
    /\ closing'[s] = "done" /\ closing[s] # "done"
    /\ reason[s] \in HasMessage
    /\ Reachable(s)

(* The goodbye is never painted over: the app has ended when it is written, *)
(* and has given the terminal back unless _close had to cancel it after its *)
(* whole grace.                                                             *)
GoodbyeOutlivesApp ==
    [][\A s \in Session :
          Goodbye(s) =>
             /\ ~AppLive(s)
             /\ \/ screen[s] = "ordinary"
                \/ closing[s] = "cancelling" /\ waited[s] >= ShutdownGrace]_vars

(* No app is cancelled before it has had the grace it was promised: by its  *)
(* own _close, or by the drain that asked it, unless its client has gone.   *)
(* (Sessions the drain found but never asked are the run sessions_late.)    *)
GraceBeforeCancel ==
    [][\A s \in Session :
          app[s] = "running" /\ app'[s] = "cancelled" =>
             \/ reason[s] = "connection_lost"
             \/ waited[s] >= ShutdownGrace
             \/ /\ stop # stop'
                /\ reason'[s] = "server_shutdown" => drainLeft' = 0]_vars

(* A client that went away does not hold a slot.                            *)
PeerGoneFreesSlot ==
    \A s \in Session : chan[s] = "lost" ~> s \notin registered

(* stop() returns, whatever apps and clients do.                            *)
StopTerminates == stop # "serving" ~> stop = "stopped"

(* After stop() no app of this server goes on running.                      *)
StopEndsApps ==
    stop = "stopped" ~> [](\A s \in Session : ~AppLive(s))

(* The slots as a client of the server sees them.                           *)
SlotOf(s) ==
    CASE stage[s] \in {"new", "refused"} -> "idle"
      [] stage[s] \in {"admitted", "started"} /\ s \notin registered -> "freed"
      [] s \in registered /\ closing[s] = "no" -> "held"
      [] s \in registered /\ closing[s] # "no" -> "ending"

slotOf == [s \in Session |-> SlotOf(s)]

Slots == INSTANCE SessionSlots WITH slot <- slotOf

(* The session machinery implements the abstract slots: refinement.  With   *)
(* their liveness, a session on its way down gives its slot back whatever   *)
(* its app does.                                                            *)
SlotsKept == Slots!Spec


-----------------------------------------------------------------------------
(* What the documentation says of the program and the code does not do.     *)

(* server.py:465, request_close(): "Text to show the client, once the app   *)
(* has released the terminal".                                              *)
GoodbyeOnOrdinaryScreen ==
    [][\A s \in Session : Goodbye(s) => screen[s] = "ordinary"]_vars

(* limits.py:583, drain(): "How many sessions had to be aborted. 0 means    *)
(* everyone left cleanly".                                                  *)
NoneAbortedMeansClean ==
    [][stop = "draining" /\ stop' = "disconnecting" /\ registered = {} =>
          \A s \in Session :
             screen[s] = "tui" /\ reason[s] = "server_shutdown" =>
                AppLive(s) \/ chan[s] = "lost"]_vars

(* limits.py:568, drain(): "sessions are asked first, and only killed if    *)
(* they will not go".                                                       *)
AskedBeforeKilled ==
    \A s \in Session : aborted[s] => closing[s] # "no"

(* server.py:1025, stop(grace): "Seconds to allow for a clean exit,         *)
(* overriding config.shutdown_grace".                                       *)
StopGraceOverrides ==
    [][\A s \in Session :
          /\ app[s] = "running"
          /\ app'[s] = "cancelled"
          /\ reason'[s] = "server_shutdown"
          => drainLeft' = 0]_vars

(* config.py:96, idle_timeout: "Seconds without client input before a       *)
(* session is closed [...] reaps the forgotten ssh window that would        *)
(* otherwise hold a session slot forever".                                  *)
SilentSessionIsReaped ==
    \A s \in Session :
        stage[s] = "admitted" ~> (stage[s] = "started" \/ s \notin registered)

(* limits.py:316, _expire(): "must not fire a second close into a session   *)
(* already tearing down".                                                   *)
NoExpiryIntoTeardown ==
    [][\A s \in Session : fired'[s] /\ ~fired[s] => closing[s] = "no"]_vars
=============================================================================
