--------------------------- MODULE SessionsProofs ---------------------------
(***************************************************************************)
(* What Sessions guarantees for any number of sessions, connections and    *)
(* slots and for any grace.                                                *)
(***************************************************************************)
EXTENDS Sessions, FiniteSetTheorems, TLAPS

(* A transition of one of the sessions, of a connection, of stop() or of    *)
(* the clock: the case analysis every invariance proof below goes through.  *)

LEMMA InitTyped == Init => TypeOK
  <1> SUFFICES ASSUME Init PROVE TypeOK
    OBVIOUS
  <1>1. waited \in [Session -> 0 .. ShutdownGrace] /\ drainLeft \in Nat
    BY SessionsAssumption DEF Init
  <1>2. pty \in [Session -> BOOLEAN] /\ fired \in [Session -> BOOLEAN]
        /\ aborted \in [Session -> BOOLEAN] /\ drained \in BOOLEAN
    BY DEF Init
  <1> QED
    BY <1>1, <1>2 DEF Init, TypeOK, Stages, Chans, Apps, Closing, Reasons,
       Stops, Deadlines

(* What the shared methods leave behind is typed.                           *)
LEMMA FinishCloseTyped ==
  ASSUME TypeOK, NEW s \in Session, FinishClose(s)
  PROVE  /\ closing' \in [Session -> Closing]
         /\ chan' \in [Session -> Chans]
         /\ registered' \subseteq Session
         /\ drained' \in BOOLEAN
  BY DEF TypeOK, FinishClose, CloseChannel, Release, Closing, Chans

LEMMA RequestCloseTyped ==
  ASSUME TypeOK, NEW S, NEW why \in Reasons, RequestClose(S, why)
  PROVE  /\ closing' \in [Session -> Closing]
         /\ reason' \in [Session -> Reasons]
         /\ timers' \in [Session -> SUBSET Deadlines]
  BY DEF TypeOK, RequestClose, Closing, Reasons, Deadlines

LEMMA StepTyped == TypeOK /\ [Next]_vars => TypeOK'
  <1> SUFFICES ASSUME TypeOK, [Next]_vars
               PROVE  TypeOK'
    OBVIOUS
  <1> USE SessionsAssumption DEF TypeOK, Stages, Chans, Apps,
          Closing, Reasons, Stops, Deadlines
  <1>1. ASSUME NEW s \in Session, SessionStep(s)
        PROVE  TypeOK'
    <2>1. CASE SessionRequested(s)
      BY <2>1 DEF SessionRequested
    <2>2. CASE ChannelMade(s)
      BY <2>2 DEF ChannelMade
    <2>3. CASE PtyRequested(s)
      BY <2>3 DEF PtyRequested
    <2>4. CASE StartFails(s)
      BY <2>4 DEF StartFails, CloseChannel, Release
    <2>5. CASE StartSucceeds(s)
      BY <2>5 DEF StartSucceeds
    <2>6. CASE DataReceived(s)
      BY <2>6 DEF DataReceived, Poke
    <2>7. CASE ChannelLost(s)
      BY <2>7 DEF ChannelLost, RequestClose
    <2>8. ASSUME NEW d \in Deadlines, DeadlineExpires(s, d)
          PROVE  TypeOK'
      BY <2>8 DEF DeadlineExpires
    <2>9. CASE AppExits(s)
      BY <2>9 DEF AppExits
    <2>10. CASE AppFinished(s)
      <3>1. RequestClose({s}, "app_exited")
        BY <2>10 DEF AppFinished
      <3>2. app' \in [Session -> Apps]
        BY <2>10 DEF AppFinished
      <3> QED
        BY <2>10, <3>1, <3>2, RequestCloseTyped DEF AppFinished
    <2>11. CASE CloseBegins(s)
      <3>1. CASE FinishClose(s)
        BY <2>11, <3>1, FinishCloseTyped DEF CloseBegins
      <3>2. CASE ~FinishClose(s)
        BY <2>11, <3>2 DEF CloseBegins
      <3> QED
        BY <3>1, <3>2
    <2>12. CASE CloseSeesExit(s)
      BY <2>12, FinishCloseTyped DEF CloseSeesExit
    <2>13. CASE CloseCancels(s)
      BY <2>13 DEF CloseCancels
    <2>14. CASE CloseAfterCancel(s)
      BY <2>14, FinishCloseTyped DEF CloseAfterCancel
    <2> QED
      BY <1>1, <2>1, <2>2, <2>3, <2>4, <2>5, <2>6, <2>7, <2>8, <2>9, <2>10,
         <2>11, <2>12, <2>13, <2>14 DEF SessionStep
  <1>2. ASSUME NEW c \in Conn, ConnectionLost(c)
        PROVE  TypeOK'
    BY <1>2 DEF ConnectionLost, RequestClose
  <1>3. CASE StopWithNobody
    BY <1>3 DEF StopWithNobody, DisconnectAll
  <1>4. CASE StopDrains
    BY <1>4 DEF StopDrains, RequestClose
  <1>5. CASE StopForces
    BY <1>5 DEF StopForces, RequestClose, AbortStragglers, Abort, CloseChannel,
       DisconnectAll
  <1>6. CASE DrainEnds
    BY <1>6 DEF DrainEnds, AbortStragglers, Abort, CloseChannel, DisconnectAll
  <1>7. CASE StopReturns
    BY <1>7 DEF StopReturns
  <1>8. CASE Tick
    BY <1>8 DEF Tick
  <1>9. CASE UNCHANGED vars
    BY <1>9 DEF vars
  <1> QED
    BY <1>1, <1>2, <1>3, <1>4, <1>5, <1>6, <1>7, <1>8, <1>9
       DEF Next, StopStep, Stopped

(* Every variable keeps to the values the code gives it.                    *)
THEOREM TypeCorrect == Spec => []TypeOK
  BY InitTyped, StepTyped, PTL DEF Spec

-----------------------------------------------------------------------------
(* A slot per session, and no more than there are.                          *)

SlotsBounded == Cardinality(registered) <= MaxSessions

LEMMA Shrinks ==
  ASSUME TypeOK, SlotsBounded, registered' \subseteq registered
  PROVE  SlotsBounded'
  <1>1. IsFiniteSet(registered)
    BY SessionsAssumption, FS_Subset DEF TypeOK
  <1>2. Cardinality(registered') <= Cardinality(registered)
    BY <1>1, FS_Subset
  <1>3. Cardinality(registered') \in Nat /\ Cardinality(registered) \in Nat
    BY <1>1, FS_Subset, FS_CardinalityType
  <1> QED
    BY <1>2, <1>3, SessionsAssumption DEF SlotsBounded

LEMMA StepBounded == TypeOK /\ SlotsBounded /\ [Next]_vars => SlotsBounded'
  <1> SUFFICES ASSUME TypeOK, SlotsBounded, [Next]_vars
               PROVE  SlotsBounded'
    OBVIOUS
  <1>1. ASSUME NEW s \in Session, SessionRequested(s)
        PROVE  SlotsBounded'
    <2>1. CASE Full
      BY <1>1, <2>1, Shrinks DEF SessionRequested
    <2>2. CASE ~(Full)
      <3>1. IsFiniteSet(registered) /\ Cardinality(registered) \in Nat
        BY SessionsAssumption, FS_Subset, FS_CardinalityType DEF TypeOK
      <3>2. \/ Cardinality(registered') = Cardinality(registered)
            \/ Cardinality(registered') = Cardinality(registered) + 1
        BY <1>1, <2>2, <3>1, FS_AddElement DEF SessionRequested
      <3> HIDE DEF TypeOK
      <3> QED
        BY <2>2, <3>1, <3>2, SessionsAssumption DEF SlotsBounded, Full
    <2> QED
      BY <2>1, <2>2
  <1>2. ASSUME NEW s \in Session, SessionStep(s), ~SessionRequested(s)
        PROVE  registered' \subseteq registered
    BY <1>2 DEF SessionStep, ChannelMade, PtyRequested, StartFails,
       StartSucceeds, DataReceived, ChannelLost, DeadlineExpires, AppExits,
       AppFinished, CloseBegins, CloseSeesExit, CloseCancels,
       CloseAfterCancel, FinishClose, Release
  <1>3. ASSUME NEW c \in Conn, ConnectionLost(c)
        PROVE  registered' \subseteq registered
    BY <1>3 DEF ConnectionLost
  <1>4. CASE StopStep \/ Tick \/ Stopped \/ UNCHANGED vars
    <2>1. registered' \subseteq registered
      BY <1>4 DEF StopStep, StopWithNobody, StopDrains, StopForces, DrainEnds,
         StopReturns, AbortStragglers, Abort, Tick, Stopped, vars
    <2> QED
      BY <2>1, Shrinks
  <1> QED
    BY <1>1, <1>2, <1>3, <1>4, Shrinks DEF Next

(* Never more sessions in the registry than max_sessions, however admission *)
(* and release interleave.                                                  *)
THEOREM RegistryBounded == Spec => []SlotsBounded
  <1>1. Init => SlotsBounded
    BY FS_EmptySet, SessionsAssumption DEF Init, SlotsBounded
  <1> QED
    BY <1>1, StepBounded, TypeCorrect, PTL DEF Spec

-----------------------------------------------------------------------------
(* The registry knows every live app.  By itself that is not inductive: an  *)
(* app starts on a session admitted long before, so the invariant follows   *)
(* the session from there.                                                  *)

AppFollowsStart == \A s \in Session : stage[s] # "started" => app[s] = "none"

StartableIsRegistered ==
    \A s \in Session :
        stage[s] = "admitted" /\ chan[s] \in {"none", "open"} =>
            s \in registered \/ aborted[s]

ClosingWaitsForApp ==
    \A s \in Session : closing[s] \in {"waiting", "cancelling"} => app[s] # "none"

RegistryInv == AppFollowsStart /\ StartableIsRegistered /\ ClosingWaitsForApp
               /\ LiveAppsAreRegistered

(* A slot given back at the end of _close is that of a session whose        *)
(* channel is closed and whose app has ended.                               *)
LEMMA FinishKeepsRegistry ==
  ASSUME TypeOK, RegistryInv, NEW s \in Session, FinishClose(s), ~AppLive(s),
         chan[s] # "none" \/ stage[s] = "started",
         UNCHANGED << stage, app, aborted >>
  PROVE  RegistryInv'
  <1>1. AppFollowsStart'
    BY DEF RegistryInv, AppFollowsStart
  <1>2. registered' = registered \ {s}
    BY DEF FinishClose, Release
  <1>3. \A t \in Session \ {s} : chan'[t] = chan[t]
    BY DEF FinishClose, CloseChannel, TypeOK
  <1>4. chan'[s] \notin {"none", "open"} \/ stage'[s] = "started"
    BY DEF FinishClose, CloseChannel, TypeOK
  <1>5. StartableIsRegistered'
    BY <1>2, <1>3, <1>4 DEF RegistryInv, StartableIsRegistered
  <1>6. LiveAppsAreRegistered'
    BY <1>2 DEF RegistryInv, LiveAppsAreRegistered, AppLive
  <1>7. ClosingWaitsForApp'
    BY DEF RegistryInv, ClosingWaitsForApp, FinishClose, TypeOK
  <1> QED
    BY <1>1, <1>5, <1>6, <1>7 DEF RegistryInv

LEMMA StepRegistry ==
  ASSUME ~LateStart, TypeOK, RegistryInv, [Next]_vars
  PROVE  RegistryInv'
  <1> USE DEF TypeOK, RegistryInv, AppFollowsStart, StartableIsRegistered,
          ClosingWaitsForApp, LiveAppsAreRegistered, AppLive
  <1>1. ASSUME NEW s \in Session, SessionStep(s)
        PROVE  RegistryInv'
    <2>1. CASE SessionRequested(s)
      BY <2>1 DEF SessionRequested
    <2>2. CASE ChannelMade(s) \/ PtyRequested(s) \/ DataReceived(s)
      BY <2>2 DEF ChannelMade, PtyRequested, DataReceived
    <2>3. CASE StartFails(s)
      <3>1. app[s] = "none" /\ stage'[s] = "started" /\ app' = app
            /\ registered' = registered \ {s} /\ aborted' = aborted
            /\ closing' = closing
        BY <2>3 DEF StartFails, Requestable, Release
      <3>2. \A t \in Session \ {s} : chan'[t] = chan[t] /\ stage'[t] = stage[t]
        BY <2>3 DEF StartFails, CloseChannel
      <3> QED
        BY <3>1, <3>2
    <2>4. CASE StartSucceeds(s)
      BY <2>4 DEF StartSucceeds, Requestable
    <2>5. CASE ChannelLost(s)
      BY <2>5 DEF ChannelLost, RequestClose
    <2>6. ASSUME NEW d \in Deadlines, DeadlineExpires(s, d)
          PROVE  RegistryInv'
      BY <2>6 DEF DeadlineExpires
    <2>7. CASE AppExits(s) \/ AppFinished(s)
      BY <2>7 DEF AppExits, AppFinished, RequestClose
    <2>8. CASE CloseBegins(s)
      <3>1. CASE app[s] # "none" /\ Grace(s) > 0
        BY <2>8, <3>1 DEF CloseBegins
      <3>2. CASE ~(app[s] # "none" /\ Grace(s) > 0)
        BY <2>8, <3>2, FinishKeepsRegistry DEF CloseBegins
      <3> QED
        BY <3>1, <3>2
    <2>9. CASE CloseSeesExit(s) \/ CloseAfterCancel(s)
      <3>1. stage[s] = "started"
        BY <2>9 DEF CloseSeesExit, CloseAfterCancel
      <3> QED
        BY <2>9, FinishKeepsRegistry DEF CloseSeesExit, CloseAfterCancel
    <2>10. CASE CloseCancels(s)
      BY <2>10 DEF CloseCancels
    <2> QED
      BY <1>1, <2>1, <2>2, <2>3, <2>4, <2>5, <2>6, <2>7, <2>8, <2>9, <2>10
         DEF SessionStep
  <1>2. ASSUME NEW c \in Conn, ConnectionLost(c)
        PROVE  RegistryInv'
    BY <1>2 DEF ConnectionLost, RequestClose
  <1>3. CASE StopStep
    <2>1. CASE StopForces \/ DrainEnds
      <3>0. stage' = stage /\ Abort(registered)
        BY <2>1 DEF StopForces, DrainEnds, AbortStragglers
      <3>1. /\ \A s \in registered : aborted'[s]
            /\ \A s \in Session : aborted[s] => aborted'[s]
            /\ \A s \in Session : AppLive(s)' => AppLive(s)
            /\ \A s \in Session : app[s] = "none" <=> app'[s] = "none"
        BY <3>0 DEF Abort
      <3>2. \A s \in Session : chan'[s] \in {"none", "open"} => chan[s] = chan'[s]
        BY <2>1 DEF StopForces, DrainEnds, AbortStragglers, Abort, CloseChannel
      <3>3. \A s \in Session : closing'[s] \in {"waiting", "cancelling"} =>
                                closing'[s] = closing[s]
        BY <2>1 DEF StopForces, DrainEnds, RequestClose
      <3> QED
        BY <3>0, <3>1, <3>2, <3>3
    <2>2. CASE StopWithNobody \/ StopDrains \/ StopReturns
      BY <2>2 DEF StopWithNobody, StopDrains, StopReturns, RequestClose
    <2> QED
      BY <1>3, <2>1, <2>2 DEF StopStep
  <1>4. CASE Tick \/ Stopped \/ UNCHANGED vars
    BY <1>4 DEF Tick, Stopped, vars
  <1> QED
    BY <1>1, <1>2, <1>3, <1>4 DEF Next

(* Whatever path ends a session, and provided asyncssh serves no request on *)
(* a channel we have closed, no app outlives its slot unless a drain took   *)
(* the slot by force.                                                       *)
THEOREM AppsAreRegistered ==
  ASSUME ~LateStart
  PROVE  Spec => []LiveAppsAreRegistered
  <1>1. Init => RegistryInv
    BY DEF Init, RegistryInv, AppFollowsStart, StartableIsRegistered,
       ClosingWaitsForApp, LiveAppsAreRegistered, AppLive
  <1>2. TypeOK /\ RegistryInv /\ [Next]_vars => RegistryInv'
    BY StepRegistry
  <1>3. RegistryInv => LiveAppsAreRegistered
    BY DEF RegistryInv
  <1> QED
    BY <1>1, <1>2, <1>3, TypeCorrect, PTL DEF Spec

-----------------------------------------------------------------------------
(* There is one way down, and it is taken once.                             *)

(* Where _close may be next.                                                *)
Later(s) ==
    CASE closing[s] = "no"         -> Closing
      [] closing[s] = "scheduled"  -> Closing \ {"no"}
      [] closing[s] = "waiting"    -> {"waiting", "cancelling", "done"}
      [] closing[s] = "cancelling" -> {"cancelling", "done"}
      [] closing[s] = "done"       -> {"done"}

GoesDownOnce ==
    \A s \in Session :
        closing'[s] \in Later(s) /\ (closing[s] # "no" => reason'[s] = reason[s])

LEMMA StepDown ==
  ASSUME TypeOK, [Next]_vars
  PROVE  GoesDownOnce
  <1> USE DEF TypeOK, GoesDownOnce, Later, Closing
  <1>1. ASSUME NEW s \in Session, SessionStep(s)
        PROVE  GoesDownOnce
    <2>1. CASE CloseBegins(s) \/ CloseSeesExit(s) \/ CloseAfterCancel(s) \/ CloseCancels(s)
      <3>1. /\ reason' = reason
            /\ \A t \in Session \ {s} : closing'[t] = closing[t]
            /\ closing'[s] \in Later(s)
        BY <2>1 DEF CloseBegins, CloseSeesExit, CloseAfterCancel, CloseCancels, FinishClose
      <3> QED
        BY <3>1
    <2>2. CASE ChannelLost(s) \/ AppFinished(s)
      BY <2>2 DEF ChannelLost, AppFinished, RequestClose
    <2>3. ASSUME NEW d \in Deadlines, DeadlineExpires(s, d)
          PROVE  GoesDownOnce
      BY <2>3 DEF DeadlineExpires
    <2>4. CASE UNCHANGED << closing, reason >>
      BY <2>4
    <2> QED
      BY <1>1, <2>1, <2>2, <2>3, <2>4
         DEF SessionStep, SessionRequested, ChannelMade, PtyRequested, StartFails,
             StartSucceeds, DataReceived, AppExits
  <1>2. ASSUME NEW c \in Conn, ConnectionLost(c)
        PROVE  GoesDownOnce
    BY <1>2 DEF ConnectionLost, RequestClose
  <1>3. CASE StopDrains \/ StopForces
    BY <1>3 DEF StopDrains, StopForces, RequestClose
  <1>4. CASE UNCHANGED << closing, reason >>
    BY <1>4
  <1> QED
    BY <1>1, <1>2, <1>3, <1>4
       DEF Next, StopStep, StopWithNobody, DrainEnds, StopReturns, Tick, Stopped, vars

(* However many causes meet in request_close(), the first gives the reason   *)
(* that is reported, and _close runs through once, never back.              *)
THEOREM OneWayDown == Spec => [][GoesDownOnce]_vars
  <1>1. TypeOK /\ [Next]_vars => [GoesDownOnce]_vars
    BY StepDown
  <1> QED
    BY <1>1, TypeCorrect, PTL DEF Spec

-----------------------------------------------------------------------------
(* When a terminal is left frozen.                                          *)

(* Only the clock touches what an app has waited, and _close never steps    *)
(* back: who was cancelled in turn stays so.                                *)
LEMMA StepTurn ==
  ASSUME TypeOK, [Next]_vars, NEW s \in Session, CancelledInTurn(s)
  PROVE  CancelledInTurn(s)'
  <1>1. closing'[s] \in {"cancelling", "done"}
    BY StepDown DEF GoesDownOnce, Later, CancelledInTurn
  <1>2. waited'[s] \in {waited[s], waited[s] + 1}
    <2>1. CASE Tick
      BY <2>1 DEF Tick, TypeOK
    <2>2. CASE waited' = waited
      BY <2>2
    <2> QED
      BY <2>1, <2>2
         DEF Next, SessionStep, SessionRequested, ChannelMade, PtyRequested, StartFails,
             StartSucceeds, DataReceived, ChannelLost, DeadlineExpires, AppExits,
             AppFinished, CloseBegins, CloseSeesExit, CloseCancels, CloseAfterCancel,
             ConnectionLost, StopStep, StopWithNobody, StopDrains, StopForces, DrainEnds,
             StopReturns, Stopped, vars
  <1> QED
    BY <1>1, <1>2, SessionsAssumption DEF CancelledInTurn, TypeOK

(* What _close takes for the loss of the client is one.                     *)
LossIsReal == \A s \in Session : reason[s] = "connection_lost" => chan[s] = "lost"

(* Nobody is cancelled but by abort(), for a client that is gone, or after  *)
(* the whole grace.                                                         *)
CancelledIsDue ==
    \A s \in Session :
        app[s] = "cancelled" => aborted[s] \/ chan[s] = "lost" \/ CancelledInTurn(s)

DueInv == LossIsReal /\ CancelledIsDue

LEMMA StepLoss ==
  ASSUME TypeOK, LossIsReal, [Next]_vars
  PROVE  LossIsReal'
  <1> USE DEF TypeOK, LossIsReal
  <1>1. ASSUME NEW s \in Session, SessionStep(s)
        PROVE  LossIsReal'
    <2>1. CASE ChannelLost(s) \/ AppFinished(s)
      BY <2>1 DEF ChannelLost, AppFinished, RequestClose
    <2>2. ASSUME NEW d \in Deadlines, DeadlineExpires(s, d)
          PROVE  LossIsReal'
      BY <2>2 DEF DeadlineExpires, Deadlines
    <2>3. CASE reason' = reason /\ \A t \in Session : chan[t] = "lost" => chan'[t] = "lost"
      BY <2>3
    <2>4. CASE CloseBegins(s) \/ CloseSeesExit(s) \/ CloseAfterCancel(s) \/ StartFails(s)
      BY <2>3, <2>4 DEF CloseBegins, CloseSeesExit, CloseAfterCancel, StartFails, FinishClose,
         CloseChannel
    <2> QED
      BY <1>1, <2>1, <2>2, <2>3, <2>4
         DEF SessionStep, SessionRequested, ChannelMade, PtyRequested, StartSucceeds,
             DataReceived, AppExits, CloseCancels
  <1>2. ASSUME NEW c \in Conn, ConnectionLost(c)
        PROVE  LossIsReal'
    BY <1>2 DEF ConnectionLost, RequestClose
  <1>3. CASE StopStep
    <2>1. CASE StopForces \/ DrainEnds
      BY <2>1 DEF StopForces, DrainEnds, AbortStragglers, Abort, CloseChannel, RequestClose
    <2>2. CASE StopWithNobody \/ StopDrains \/ StopReturns
      BY <2>2 DEF StopWithNobody, StopDrains, StopReturns, RequestClose
    <2> QED
      BY <1>3, <2>1, <2>2 DEF StopStep
  <1>4. CASE Tick \/ Stopped \/ UNCHANGED vars
    BY <1>4 DEF Tick, Stopped, vars
  <1> QED
    BY <1>1, <1>2, <1>3, <1>4 DEF Next

(* A lost channel stays lost.                                               *)
LEMMA StepLossStays ==
  ASSUME TypeOK, [Next]_vars, NEW s \in Session, chan[s] = "lost"
  PROVE  chan'[s] = "lost"
  <1> USE DEF TypeOK
  <1>1. ASSUME NEW t \in Session, SessionStep(t)
        PROVE  chan'[s] = "lost"
    BY <1>1 DEF SessionStep, SessionRequested, ChannelMade, PtyRequested, StartFails,
       StartSucceeds, DataReceived, ChannelLost, DeadlineExpires, AppExits, AppFinished,
       CloseBegins, CloseSeesExit, CloseCancels, CloseAfterCancel, FinishClose, CloseChannel
  <1>2. ASSUME NEW c \in Conn, ConnectionLost(c)
        PROVE  chan'[s] = "lost"
    BY <1>2 DEF ConnectionLost
  <1>3. CASE StopForces \/ DrainEnds
    BY <1>3 DEF StopForces, DrainEnds, AbortStragglers, Abort, CloseChannel
  <1>4. CASE StopWithNobody \/ StopDrains \/ StopReturns \/ Tick \/ Stopped \/ UNCHANGED vars
    BY <1>4 DEF StopWithNobody, StopDrains, StopReturns, Tick, Stopped, vars
  <1> QED
    BY <1>1, <1>2, <1>3, <1>4 DEF Next, StopStep

LEMMA StepDue ==
  ASSUME TypeOK, DueInv, [Next]_vars
  PROVE  DueInv'
  <1>0. LossIsReal' /\ \A s \in Session : CancelledInTurn(s) => CancelledInTurn(s)'
    BY StepLoss, StepTurn DEF DueInv
  <1> SUFFICES ASSUME NEW s \in Session, app'[s] = "cancelled"
               PROVE  aborted'[s] \/ chan'[s] = "lost" \/ CancelledInTurn(s)'
    BY <1>0 DEF DueInv, CancelledIsDue
  <1>1. (aborted[s] => aborted'[s]) /\ (chan[s] = "lost" => chan'[s] = "lost")
    <2>1. CASE StopForces \/ DrainEnds
      BY <2>1 DEF StopForces, DrainEnds, AbortStragglers, Abort, CloseChannel, TypeOK
    <2>2. aborted' = aborted \/ StopForces \/ DrainEnds
      BY DEF Next, SessionStep, SessionRequested, ChannelMade, PtyRequested,
         StartFails, StartSucceeds, DataReceived, ChannelLost, DeadlineExpires, AppExits,
         AppFinished, CloseBegins, CloseSeesExit, CloseCancels, CloseAfterCancel,
         ConnectionLost, StopStep, StopWithNobody, StopDrains, StopReturns, Tick, Stopped,
         vars
    <2>3. chan[s] = "lost" => chan'[s] = "lost"
      BY StepLossStays
    <2> QED
      BY <2>1, <2>2, <2>3
  <1>2. CASE app[s] = "cancelled"
    BY <1>0, <1>1, <1>2 DEF DueInv, CancelledIsDue
  <1>3. CASE CloseCancels(s)
    <2>1. /\ closing'[s] = "cancelling" /\ waited' = waited /\ chan' = chan
          /\ Grace(s) = 0 \/ waited[s] >= Grace(s)
      BY <1>3 DEF CloseCancels, TypeOK
    <2>2. CASE reason[s] = "connection_lost"
      BY <2>1, <2>2 DEF DueInv, LossIsReal
    <2>3. CASE reason[s] # "connection_lost"
      <3>1. waited[s] >= ShutdownGrace
        BY <2>1, <2>3, SessionsAssumption DEF Grace, TypeOK
      <3> QED
        BY <2>1, <3>1 DEF CancelledInTurn
    <2> QED
      BY <2>2, <2>3
  <1>4. CASE (StopForces \/ DrainEnds) /\ app[s] # "cancelled"
    BY <1>4 DEF StopForces, DrainEnds, AbortStragglers, Abort, TypeOK
  <1>5. CASE ~CloseCancels(s) /\ ~StopForces /\ ~DrainEnds
    <2>1. ASSUME NEW t \in Session, SessionStep(t) PROVE app[s] = "cancelled"
      <3>1. CASE CloseCancels(t)
        BY <1>5, <3>1 DEF TypeOK, CloseCancels
      <3>2. CASE StartSucceeds(t) \/ AppExits(t) \/ AppFinished(t)
        BY <3>2 DEF TypeOK, StartSucceeds, AppExits, AppFinished
      <3>3. CASE app' = app
        BY <3>3
      <3> QED
        BY <2>1, <3>1, <3>2, <3>3
           DEF SessionStep, SessionRequested, ChannelMade, PtyRequested, StartFails,
               DataReceived, ChannelLost, DeadlineExpires, CloseBegins, CloseSeesExit,
               CloseAfterCancel
    <2>2. ASSUME app' = app PROVE app[s] = "cancelled"
      BY <2>2
    <2>3. app[s] = "cancelled"
      BY <1>5, <2>1, <2>2 DEF Next, ConnectionLost, StopStep, StopWithNobody, StopDrains,
         StopReturns, Tick, Stopped, vars
    <2> QED
      BY <1>2, <2>3
  <1> QED
    BY <1>2, <1>3, <1>4, <1>5

(* While its app lives a session has a channel to give the terminal back    *)
(* over, and nothing but abort() closes that.                               *)
LiveAppsHaveChannels ==
    \A s \in Session :
        AppLive(s) => chan[s] # "none" /\ (chan[s] = "closed" => aborted[s])

(* Connections are closed, and sessions aborted, by stop() alone and in one  *)
(* run: an app that lives on then was aborted.                              *)
ClosingAborts ==
    \A s \in Session :
        /\ AppLive(s) /\ conn[ConnOf[s]] # "up" => aborted[s] \/ chan[s] = "lost"
        /\ aborted[s] => conn[ConnOf[s]] # "up"

FrozenInv ==
    /\ DueInv
    /\ LiveAppsHaveChannels
    /\ ClosingAborts
    /\ FrozenOnlyAfterGrace
    /\ \A s \in Session : screen[s] = "tui" => app[s] # "none"

LEMMA StepFrozen ==
  ASSUME ~LateStart, TypeOK, RegistryInv, FrozenInv, [Next]_vars
  PROVE  FrozenInv'
  <1> USE SessionsAssumption DEF TypeOK, RegistryInv, AppFollowsStart,
          LiveAppsAreRegistered, FrozenInv, ClosingAborts,
          LiveAppsHaveChannels, FrozenOnlyAfterGrace, AppLive
  <1>0. DueInv' /\ \A s \in Session : CancelledInTurn(s) => CancelledInTurn(s)'
    BY StepDue, StepTurn
  <1>1. ASSUME NEW s \in Session, SessionStep(s)
        PROVE  FrozenInv'
    <2>1. CASE SessionRequested(s)
      BY <1>0, <2>1 DEF SessionRequested
    <2>2. CASE ChannelMade(s) \/ PtyRequested(s) \/ DataReceived(s)
      BY <1>0, <2>2 DEF ChannelMade, PtyRequested, DataReceived
    <2>3. CASE StartFails(s)
      BY <1>0, <2>3 DEF StartFails, Requestable, CloseChannel
    <2>4. CASE StartSucceeds(s)
      BY <1>0, <2>4 DEF StartSucceeds, Requestable
    <2>5. CASE ChannelLost(s)
      BY <1>0, <2>5 DEF ChannelLost
    <2>6. ASSUME NEW d \in Deadlines, DeadlineExpires(s, d)
          PROVE  FrozenInv'
      BY <1>0, <2>6 DEF DeadlineExpires
    <2>7. CASE AppExits(s)
      BY <1>0, <2>7 DEF AppExits, Reachable, Chans, DueInv, CancelledIsDue
    <2>8. CASE AppFinished(s)
      BY <1>0, <2>8 DEF AppFinished
    <2>9. CASE CloseBegins(s) \/ CloseSeesExit(s) \/ CloseAfterCancel(s)
      <3>1. /\ UNCHANGED << conn, stage, app, screen, aborted >>
            /\ chan' = chan \/ (CloseChannel({s}) /\ ~AppLive(s))
        BY <2>9 DEF CloseBegins, CloseSeesExit, CloseAfterCancel, FinishClose
      <3> QED
        BY <1>0, <3>1 DEF CloseChannel
    <2>10. CASE CloseCancels(s)
      BY <1>0, <2>10 DEF CloseCancels
    <2> QED
      BY <1>1, <2>1, <2>2, <2>3, <2>4, <2>5, <2>6, <2>7, <2>8, <2>9, <2>10
         DEF SessionStep
  <1>2. ASSUME NEW c \in Conn, ConnectionLost(c)
        PROVE  FrozenInv'
    <2>1. /\ UNCHANGED << stage, registered, app, screen, aborted >>
          /\ conn[c] # "lost" /\ conn' = [conn EXCEPT ![c] = "lost"]
      BY <1>2 DEF ConnectionLost
    <2>2. \A s \in Session :
             IF ConnOf[s] = c /\ chan[s] \in {"open", "closed"}
             THEN chan'[s] = "lost" ELSE chan'[s] = chan[s]
      BY <1>2 DEF ConnectionLost
    <2>3. LiveAppsHaveChannels' /\ FrozenOnlyAfterGrace'
      BY <1>0, <2>1, <2>2
    <2>4. ASSUME NEW s \in Session
          PROVE  /\ AppLive(s)' /\ conn'[ConnOf[s]] # "up" => aborted'[s] \/ chan'[s] = "lost"
                 /\ aborted'[s] => conn'[ConnOf[s]] # "up"
      <3>1. CASE ConnOf[s] = c
        BY <2>1, <2>2, <3>1 DEF Chans
      <3>2. CASE ConnOf[s] # c
        BY <2>1, <2>2, <3>2
      <3> QED
        BY <3>1, <3>2
    <2> QED
      BY <1>0, <2>1, <2>3, <2>4
  <1>3. CASE StopForces \/ DrainEnds
    <2>1. /\ UNCHANGED << stage, screen >>
          /\ Abort(registered) /\ DisconnectAll
      BY <1>3 DEF StopForces, DrainEnds, AbortStragglers
    <2>2. \A s \in Session : /\ AppLive(s)' <=> AppLive(s)
                             /\ app'[s] = "none" <=> app[s] = "none"
                             /\ aborted[s] => aborted'[s]
                             /\ chan'[s] = chan[s]
                                \/ (aborted'[s] /\ chan[s] = "open" /\ chan'[s] = "closed")
      BY <2>1 DEF Abort, CloseChannel
    <2>3. \A s \in Session : conn'[ConnOf[s]] # "up"
      BY <2>1 DEF DisconnectAll
    <2>4. \A s \in registered : aborted'[s]
      BY <2>1 DEF Abort
    <2>5. LiveAppsHaveChannels'
      BY <2>1, <2>2
    <2>6. ClosingAborts'
      BY <2>2, <2>3, <2>4
    <2>7. FrozenOnlyAfterGrace' /\ \A s \in Session : screen'[s] = "tui" => app'[s] # "none"
      BY <1>0, <2>1, <2>2
    <2> QED
      BY <1>0, <2>5, <2>6, <2>7
  <1>4. CASE StopWithNobody
    <2>1. \A s \in Session : AppLive(s) => aborted[s]
      BY <1>4 DEF StopWithNobody
    <2>2. \A s \in Session : conn'[ConnOf[s]] # "up"
      BY <1>4 DEF StopWithNobody, DisconnectAll
    <2> QED
      BY <1>0, <1>4, <2>1, <2>2 DEF StopWithNobody
  <1>5. CASE StopDrains \/ StopReturns \/ Tick \/ Stopped \/ UNCHANGED vars
    BY <1>0, <1>5 DEF StopDrains, StopReturns, Tick, Stopped, vars
  <1> QED
    BY <1>1, <1>2, <1>3, <1>4, <1>5 DEF Next, StopStep

LEMMA FrozenAlways ==
  ASSUME ~LateStart
  PROVE  Spec => [](RegistryInv /\ FrozenInv)
  <1>1. Init => RegistryInv /\ FrozenInv
    BY DEF Init, RegistryInv, AppFollowsStart, StartableIsRegistered,
       ClosingWaitsForApp, LiveAppsAreRegistered, FrozenInv, ClosingAborts,
       LiveAppsHaveChannels, FrozenOnlyAfterGrace, AppLive, DueInv, LossIsReal,
       CancelledIsDue
  <1>2. TypeOK /\ RegistryInv /\ FrozenInv /\ [Next]_vars
          => (RegistryInv /\ FrozenInv)'
    BY StepRegistry, StepFrozen
  <1> QED
    BY <1>1, <1>2, TypeCorrect, PTL DEF Spec

(* A client that can be told is left before a dead frame by abort() only, or *)
(* by an app that overstayed its whole grace and was cancelled for it: an   *)
(* app that ends in time finds its channel open, provided asyncssh serves   *)
(* no request on a channel we have closed.                                  *)
THEOREM FreezesAreForced ==
  ASSUME ~LateStart
  PROVE  Spec => []FrozenOnlyAfterGrace
  <1>1. FrozenInv => FrozenOnlyAfterGrace
    BY DEF FrozenInv
  <1> QED
    BY <1>1, FrozenAlways, PTL

(* The tail of _close runs when the app has ended.                          *)
LEMMA FinishIsLast ==
  ASSUME TypeOK, [Next]_vars, NEW s \in Session,
         closing'[s] = "done", closing[s] # "done"
  PROVE  ~AppLive(s)
  <1> USE DEF TypeOK
  <1>1. ASSUME NEW t \in Session, SessionStep(t)
        PROVE  ~AppLive(s)
    <2>1. CASE CloseBegins(t) \/ CloseSeesExit(t) \/ CloseAfterCancel(t)
      BY <2>1 DEF CloseBegins, CloseSeesExit, CloseAfterCancel, FinishClose
    <2>2. CASE ChannelLost(t) \/ AppFinished(t)
      BY <2>2 DEF ChannelLost, AppFinished, RequestClose
    <2> QED
      BY <1>1, <2>1, <2>2 DEF SessionStep, SessionRequested, ChannelMade,
         PtyRequested, StartFails, StartSucceeds, DataReceived, DeadlineExpires,
         AppExits, CloseCancels
  <1>2. ASSUME NEW c \in Conn, ConnectionLost(c)
        PROVE  FALSE
    BY <1>2 DEF ConnectionLost, RequestClose
  <1>3. CASE StopStep
    BY <1>3 DEF StopStep, StopWithNobody, StopDrains, StopForces, DrainEnds,
       StopReturns, RequestClose
  <1>4. CASE Tick \/ Stopped \/ UNCHANGED vars
    BY <1>4 DEF Tick, Stopped, vars
  <1> QED
    BY <1>1, <1>2, <1>3, <1>4 DEF Next

(* The goodbye outlives the app: a client that can be reached was not       *)
(* aborted, so its app has ended by itself and given the terminal back, or  *)
(* was cancelled by this same _close after all of its grace.                *)
THEOREM GoodbyesAreSeen ==
  ASSUME ~LateStart
  PROVE  Spec => GoodbyeOutlivesApp
  <1> DEFINE Seen ==
        \A s \in Session :
          Goodbye(s) =>
             /\ ~AppLive(s)
             /\ \/ screen[s] = "ordinary"
                \/ closing[s] = "cancelling" /\ waited[s] >= ShutdownGrace
  <1>1. TypeOK /\ FrozenInv /\ [Next]_vars => [Seen]_vars
    <2> SUFFICES ASSUME TypeOK, FrozenInv, [Next]_vars, NEW s \in Session, Goodbye(s)
                 PROVE  /\ ~AppLive(s)
                        /\ \/ screen[s] = "ordinary"
                           \/ closing[s] = "cancelling" /\ waited[s] >= ShutdownGrace
      OBVIOUS
    <2>1. ~AppLive(s)
      BY FinishIsLast DEF Goodbye
    <2>2. ~aborted[s] /\ chan[s] # "lost" /\ closing[s] # "done"
      BY DEF FrozenInv, ClosingAborts, Reachable, Goodbye
    <2> QED
      BY <2>1, <2>2 DEF FrozenInv, FrozenOnlyAfterGrace, CancelledInTurn, TypeOK
  <1>2. Spec => [][Seen]_vars
    <2> HIDE DEF Seen
    <2> QED
      BY <1>1, FrozenAlways, TypeCorrect, PTL DEF Spec
  <1> QED
    BY <1>2 DEF GoodbyeOutlivesApp

(* Hence max_sessions bounds the apps at work, not just the table entries.  *)
THEOREM AppsAreBounded ==
  ASSUME ~LateStart
  PROVE  Spec => []AppsBounded
  <1>1. TypeOK /\ SlotsBounded /\ LiveAppsAreRegistered => AppsBounded
    <2> SUFFICES ASSUME TypeOK, SlotsBounded, LiveAppsAreRegistered
                 PROVE  AppsBounded
      OBVIOUS
    <2> DEFINE Working == {s \in Session : AppLive(s) /\ ~aborted[s]}
    <2>1. Working \subseteq registered
      BY DEF LiveAppsAreRegistered
    <2>2. IsFiniteSet(registered)
      BY SessionsAssumption, FS_Subset DEF TypeOK
    <2>3. Cardinality(Working) <= Cardinality(registered)
      BY <2>1, <2>2, FS_Subset
    <2>4. Cardinality(Working) \in Nat /\ Cardinality(registered) \in Nat
      BY <2>1, <2>2, FS_Subset, FS_CardinalityType
    <2> HIDE DEF Working
    <2>5. Cardinality(Working) <= MaxSessions
      BY <2>3, <2>4, SessionsAssumption DEF SlotsBounded
    <2> QED
      BY <2>5 DEF AppsBounded, Working
  <1> QED
    BY <1>1, TypeCorrect, RegistryBounded, AppsAreRegistered, PTL

-----------------------------------------------------------------------------
(* The drain.                                                               *)

DrainInv ==
    stop \in {"disconnecting", "stopped"} =>
        registered = {} /\ \A c \in Conn : conn[c] # "up"

LEMMA StepDrain ==
  ASSUME TypeOK, DrainInv, [Next]_vars
  PROVE  DrainInv'
  <1> USE DEF TypeOK, DrainInv
  <1>1. ASSUME NEW s \in Session, SessionStep(s)
        PROVE  DrainInv'
    <2>1. CASE SessionRequested(s)
      BY <2>1, SessionsAssumption DEF SessionRequested
    <2>2. CASE ~SessionRequested(s)
      <3>1. registered' \subseteq registered /\ stop' = stop /\ conn' = conn
        BY <1>1, <2>2 DEF SessionStep, ChannelMade, PtyRequested, StartFails,
           StartSucceeds, DataReceived, ChannelLost, DeadlineExpires, AppExits,
           AppFinished, CloseBegins, CloseSeesExit, CloseCancels,
           CloseAfterCancel, FinishClose, Release
      <3> QED
        BY <3>1
    <2> QED
      BY <2>1, <2>2
  <1>2. ASSUME NEW c \in Conn, ConnectionLost(c)
        PROVE  DrainInv'
    BY <1>2 DEF ConnectionLost
  <1>3. CASE StopStep
    BY <1>3 DEF StopStep, StopWithNobody, StopDrains, StopForces, DrainEnds,
       StopReturns, AbortStragglers, Abort, DisconnectAll
  <1>4. CASE Tick \/ Stopped \/ UNCHANGED vars
    BY <1>4 DEF Tick, Stopped, vars
  <1> QED
    BY <1>1, <1>2, <1>3, <1>4 DEF Next

(* When stop() has drained the registry nobody holds a slot, and nobody can *)
(* take one on a connection that is still closing.                          *)
THEOREM DrainEmptiesRegistry == Spec => []DrainLeavesNobody
  <1>1. Init => DrainInv
    BY DEF Init, DrainInv
  <1>2. TypeOK /\ DrainInv /\ [Next]_vars => DrainInv'
    BY StepDrain
  <1>3. DrainInv => DrainLeavesNobody
    BY DEF DrainInv, DrainLeavesNobody
  <1> QED
    BY <1>1, <1>2, <1>3, TypeCorrect, PTL DEF Spec

(* Why drain() never kills early a session it has asked: _drained is set    *)
(* only by the release that empties the registry, and a session admitted    *)
(* after that was never asked.                                              *)
DrainedMeansEmptied ==
    /\ \A s \in Session :
          s \in registered \/ reason[s] = "server_shutdown" =>
              stage[s] \in {"admitted", "started"}
    /\ drained =>
          /\ stop = "draining"
          /\ \A s \in registered : reason[s] # "server_shutdown"

LEMMA StepDrained ==
  ASSUME TypeOK, DrainedMeansEmptied, [Next]_vars
  PROVE  DrainedMeansEmptied'
  <1> USE DEF TypeOK, DrainedMeansEmptied
  <1>1. ASSUME NEW s \in Session, SessionStep(s)
        PROVE  DrainedMeansEmptied'
    <2>1. CASE SessionRequested(s)
      BY <2>1 DEF SessionRequested
    <2>2. CASE StartFails(s)
      <3>1. stage'[s] = "started" /\ reason' = reason /\ stop' = stop
            /\ \A t \in Session \ {s} : stage'[t] = stage[t]
        BY <2>2 DEF StartFails
      <3>2. Release({s})
        BY <2>2 DEF StartFails
      <3> QED
        BY <3>1, <3>2 DEF Release
    <2>3. CASE StartSucceeds(s)
      BY <2>3 DEF StartSucceeds
    <2>4. CASE ChannelLost(s) \/ AppFinished(s)
      BY <2>4 DEF ChannelLost, AppFinished, RequestClose
    <2>5. ASSUME NEW d \in Deadlines, DeadlineExpires(s, d)
          PROVE  DrainedMeansEmptied'
      BY <2>5 DEF DeadlineExpires, Deadlines
    <2>6. CASE CloseBegins(s) \/ CloseSeesExit(s) \/ CloseAfterCancel(s)
      BY <2>6 DEF CloseBegins, CloseSeesExit, CloseAfterCancel, FinishClose,
         Release
    <2>7. CASE ChannelMade(s) \/ PtyRequested(s) \/ DataReceived(s)
               \/ AppExits(s) \/ CloseCancels(s)
      BY <2>7 DEF ChannelMade, PtyRequested, DataReceived, AppExits,
         CloseCancels
    <2> QED
      BY <1>1, <2>1, <2>2, <2>3, <2>4, <2>5, <2>6, <2>7 DEF SessionStep
  <1>2. ASSUME NEW c \in Conn, ConnectionLost(c)
        PROVE  DrainedMeansEmptied'
    BY <1>2 DEF ConnectionLost, RequestClose
  <1>3. CASE StopStep
    BY <1>3 DEF StopStep, StopWithNobody, StopDrains, StopForces, DrainEnds,
       StopReturns, AbortStragglers, Abort, RequestClose
  <1>4. CASE Tick \/ Stopped \/ UNCHANGED vars
    BY <1>4 DEF Tick, Stopped, vars
  <1> QED
    BY <1>1, <1>2, <1>3, <1>4 DEF Next

LEMMA StepGraceful ==
  ASSUME TypeOK, DrainedMeansEmptied, [Next]_vars, NEW s \in Session,
         app[s] = "running", app'[s] = "cancelled"
  PROVE  \/ reason[s] = "connection_lost"
         \/ waited[s] >= ShutdownGrace
         \/ /\ stop # stop'
            /\ reason'[s] = "server_shutdown" => drainLeft' = 0
  <1> USE SessionsAssumption DEF TypeOK
  <1>1. CASE CloseCancels(s)
    BY <1>1 DEF CloseCancels, Grace
  <1>2. CASE StopForces
    BY <1>2 DEF StopForces
  <1>3. CASE DrainEnds
    BY <1>3 DEF DrainEnds, AbortStragglers, Abort, DrainedMeansEmptied
  <1>4. ASSUME NEW t \in Session, SessionStep(t), ~CloseCancels(s)
        PROVE  FALSE
    BY <1>4 DEF SessionStep, SessionRequested, ChannelMade, PtyRequested,
       StartFails, StartSucceeds, DataReceived, ChannelLost, DeadlineExpires,
       AppExits, AppFinished, CloseBegins, CloseSeesExit, CloseCancels,
       CloseAfterCancel
  <1>5. ASSUME NEW c \in Conn, ConnectionLost(c)
        PROVE  FALSE
    BY <1>5 DEF ConnectionLost
  <1>6. CASE StopWithNobody \/ StopDrains \/ StopReturns \/ Tick \/ Stopped
             \/ UNCHANGED vars
    BY <1>6 DEF StopWithNobody, StopDrains, StopReturns, Tick, Stopped, vars
  <1> QED
    BY <1>1, <1>2, <1>3, <1>4, <1>5, <1>6 DEF Next, StopStep

(* An app is given all the grace it was promised before it is cancelled.    *)
THEOREM GraceIsGiven == Spec => GraceBeforeCancel
  <1>1. Init => DrainedMeansEmptied
    BY DEF Init, DrainedMeansEmptied
  <1>2. TypeOK /\ DrainedMeansEmptied /\ [Next]_vars => DrainedMeansEmptied'
    BY StepDrained
  <1> DEFINE Graceful ==
        \A s \in Session :
          app[s] = "running" /\ app'[s] = "cancelled" =>
             \/ reason[s] = "connection_lost"
             \/ waited[s] >= ShutdownGrace
             \/ /\ stop # stop'
                /\ reason'[s] = "server_shutdown" => drainLeft' = 0
  <1>3. TypeOK /\ DrainedMeansEmptied /\ [Next]_vars => [Graceful]_vars
    BY StepGraceful
  <1>4. Spec => [][Graceful]_vars
    <2> HIDE DEF Graceful
    <2> QED
      BY <1>1, <1>2, <1>3, TypeCorrect, PTL DEF Spec
  <1> QED
    BY <1>4 DEF GraceBeforeCancel

-----------------------------------------------------------------------------
(* Refinement: the session machinery keeps the promise of SessionSlots.     *)

Outside(s) == stage[s] \in {"new", "refused"}

OutsideHasNothing ==
    \A s \in Session :
        Outside(s) => /\ s \notin registered
                      /\ chan[s] = "none"
                      /\ app[s] = "none"
                      /\ timers[s] = {}
                      /\ closing[s] = "no"

LEMMA StepOutside ==
  ASSUME TypeOK, OutsideHasNothing, [Next]_vars
  PROVE  OutsideHasNothing'
  <1> USE DEF TypeOK, OutsideHasNothing, Outside
  <1>1. ASSUME NEW s \in Session, SessionStep(s)
        PROVE  OutsideHasNothing'
    <2>1. CASE SessionRequested(s)
      BY <2>1 DEF SessionRequested
    <2>2. CASE StartFails(s) \/ StartSucceeds(s)
      <3>1. /\ stage' = [stage EXCEPT ![s] = "started"]
            /\ registered' \subseteq registered
            /\ closing' = closing
        BY <2>2 DEF StartFails, StartSucceeds, Release
      <3>2. \A t \in Session : chan[t] = "none" => chan'[t] = "none"
        BY <2>2 DEF StartFails, StartSucceeds, CloseChannel
      <3>3. \A t \in Session \ {s} : app'[t] = app[t] /\ timers'[t] = timers[t]
        BY <2>2 DEF StartFails, StartSucceeds
      <3> QED
        BY <3>1, <3>2, <3>3
    <2>3. CASE ChannelLost(s) \/ AppFinished(s)
      BY <2>3 DEF ChannelLost, AppFinished, RequestClose
    <2>4. ASSUME NEW d \in Deadlines, DeadlineExpires(s, d)
          PROVE  OutsideHasNothing'
      BY <2>4 DEF DeadlineExpires
    <2>5. CASE CloseBegins(s) \/ CloseSeesExit(s) \/ CloseAfterCancel(s)
      <3>1. stage[s] \notin {"new", "refused"} /\ stage' = stage /\ app' = app
            /\ timers' = timers /\ registered' \subseteq registered
        BY <2>5 DEF CloseBegins, CloseSeesExit, CloseAfterCancel, FinishClose,
           Release
      <3>2. \A t \in Session \ {s} : chan'[t] = chan[t] /\ closing'[t] = closing[t]
        BY <2>5 DEF CloseBegins, CloseSeesExit, CloseAfterCancel, FinishClose,
           CloseChannel
      <3> QED
        BY <3>1, <3>2
    <2>6. CASE ChannelMade(s) \/ DataReceived(s)
      BY <2>6 DEF ChannelMade, DataReceived, Poke
    <2>7. CASE PtyRequested(s) \/ AppExits(s) \/ CloseCancels(s)
      BY <2>7 DEF PtyRequested, AppExits, CloseCancels, AppLive
    <2> QED
      BY <1>1, <2>1, <2>2, <2>3, <2>4, <2>5, <2>6, <2>7 DEF SessionStep
  <1>2. ASSUME NEW c \in Conn, ConnectionLost(c)
        PROVE  OutsideHasNothing'
    BY <1>2 DEF ConnectionLost, RequestClose
  <1>3. CASE StopForces \/ DrainEnds
    <2>1. /\ stage' = stage /\ registered' \subseteq registered
          /\ \A s \in Session : app[s] = "none" => app'[s] = "none"
          /\ \A s \in Session : chan[s] = "none" => chan'[s] = "none"
      BY <1>3 DEF StopForces, DrainEnds, AbortStragglers, Abort, CloseChannel
    <2>2. \A s \in Session \ registered :
             timers'[s] = timers[s] /\ closing'[s] = closing[s]
      BY <1>3 DEF StopForces, DrainEnds, RequestClose
    <2> QED
      BY <2>1, <2>2
  <1>4. CASE StopWithNobody \/ StopDrains \/ StopReturns
    BY <1>4 DEF StopWithNobody, StopDrains, StopReturns, RequestClose
  <1>5. CASE Tick \/ Stopped \/ UNCHANGED vars
    BY <1>5 DEF Tick, Stopped, vars
  <1> QED
    BY <1>1, <1>2, <1>3, <1>4, <1>5 DEF Next, StopStep

(* A step that only takes slots away is a Free, possibly of nobody.         *)
LEMMA OnlyFrees ==
  ASSUME TypeOK, TypeOK', OutsideHasNothing, OutsideHasNothing',
         \A s \in Session : Outside(s) <=> Outside(s)',
         registered' \subseteq registered,
         \A s \in registered' : closing[s] = "no" <=> closing'[s] = "no"
  PROVE  Slots!Next
  <1> DEFINE S == registered \ registered'
  <1>1. S \in SUBSET Session
    BY DEF TypeOK
  <1>2. \A s \in S : SlotOf(s) \in {"held", "ending"}
    BY DEF SlotOf, TypeOK, Stages, OutsideHasNothing, Outside
  <1>3. \A s \in Session : SlotOf(s)' = IF s \in S THEN "freed" ELSE SlotOf(s)
    BY DEF SlotOf, TypeOK, Stages, OutsideHasNothing, Outside
  <1>4. Slots!Free(S)
    BY <1>1, <1>2, <1>3 DEF Slots!Free, Slots!Holders, Slots!Move, slotOf
  <1> QED
    BY <1>1, <1>4 DEF Slots!Next

(* A step that only asks for ends is an Ask, possibly of nobody.            *)
LEMMA OnlyAsks ==
  ASSUME TypeOK, TypeOK', OutsideHasNothing, OutsideHasNothing',
         \A s \in Session : Outside(s) <=> Outside(s)',
         registered' = registered,
         \A s \in registered : closing'[s] = "no" => closing[s] = "no"
  PROVE  Slots!Next
  <1> DEFINE S == {s \in registered : closing[s] = "no" /\ closing'[s] # "no"}
  <1>1. S \in SUBSET Session
    BY DEF TypeOK
  <1>2. \A s \in S : SlotOf(s) = "held"
    BY DEF SlotOf, TypeOK, Stages, OutsideHasNothing, Outside
  <1>3. \A s \in Session : SlotOf(s)' = IF s \in S THEN "ending" ELSE SlotOf(s)
    BY DEF SlotOf, TypeOK, Stages, OutsideHasNothing, Outside
  <1>4. Slots!Ask(S)
    BY <1>1, <1>2, <1>3 DEF Slots!Ask, Slots!Move, slotOf
  <1> QED
    BY <1>1, <1>4 DEF Slots!Next

LEMMA SameCardinality == \A S : Slots!Cardinality(S) = Cardinality(S)
  BY DEF Slots!Cardinality, Cardinality

LEMMA StepAdmits ==
  ASSUME TypeOK, OutsideHasNothing, NEW x \in Session, SessionRequested(x)
  PROVE  [Slots!Next]_slotOf
  <1> USE DEF TypeOK
  <1>1. CASE Full
    <2>1. \A t \in Session : SlotOf(t)' = SlotOf(t)
      BY <1>1 DEF SessionRequested, SlotOf, Stages
    <2>2. slotOf' = slotOf
      BY <2>1 DEF slotOf
    <2> QED
      BY <2>2
  <1>2. CASE ~(Full)
    <2>1. Slots!Holders = registered
      BY DEF Slots!Holders, slotOf, SlotOf, Stages, OutsideHasNothing, Outside
    <2>2. IsFiniteSet(registered) /\ Cardinality(registered) \in Nat
      BY SessionsAssumption, FS_Subset, FS_CardinalityType
    <2>3. SlotOf(x) = "idle"
      BY DEF SessionRequested, SlotOf, OutsideHasNothing, Outside
    <2>4. \A t \in Session : SlotOf(t)' = IF t = x THEN "held" ELSE SlotOf(t)
      BY <1>2 DEF SessionRequested, SlotOf, Stages, OutsideHasNothing, Outside
    <2>5. Slots!Cardinality(Slots!Holders) < MaxSessions
      BY <1>2, <2>1, <2>2, SameCardinality, SessionsAssumption DEF Full
    <2>6. Slots!Admit(x)
      BY <2>3, <2>4, <2>5 DEF Slots!Admit, Slots!Move, slotOf
    <2> QED
      BY <2>6 DEF Slots!Next
  <1> QED
    BY <1>1, <1>2

LEMMA StepRefines ==
  ASSUME TypeOK, TypeOK', OutsideHasNothing, OutsideHasNothing', [Next]_vars
  PROVE  [Slots!Next]_slotOf
  <1> USE DEF TypeOK, Outside
  <1>1. ASSUME NEW s \in Session, SessionStep(s), ~SessionRequested(s)
        PROVE  Slots!Next
    <2>1. CASE StartFails(s) \/ CloseBegins(s) \/ CloseSeesExit(s)
               \/ CloseAfterCancel(s) \/ CloseCancels(s)
      <3>1. /\ registered' \subseteq registered
            /\ \A t \in registered' : closing[t] = "no" <=> closing'[t] = "no"
        BY <2>1 DEF StartFails, CloseBegins, CloseSeesExit, CloseAfterCancel,
           CloseCancels, FinishClose, Release
      <3>2. \A t \in Session : Outside(t) <=> Outside(t)'
        BY <2>1 DEF StartFails, Requestable, CloseBegins, CloseSeesExit,
           CloseAfterCancel, CloseCancels
      <3> QED
        BY <3>1, <3>2, OnlyFrees
    <2>2. ASSUME ChannelLost(s) \/ AppFinished(s)
                 \/ \E d \in Deadlines : DeadlineExpires(s, d)
          PROVE  Slots!Next
      <3>1. \A t \in registered : closing'[t] = "no" => closing[t] = "no"
        BY <2>2 DEF ChannelLost, AppFinished, DeadlineExpires, RequestClose
      <3>2. stage' = stage /\ registered' = registered
        BY <2>2 DEF ChannelLost, AppFinished, DeadlineExpires
      <3> QED
        BY <3>1, <3>2, OnlyAsks
    <2>3. CASE ChannelMade(s) \/ PtyRequested(s) \/ DataReceived(s)
               \/ AppExits(s) \/ StartSucceeds(s)
      <3>1. registered' = registered /\ closing' = closing
        BY <2>3 DEF ChannelMade, PtyRequested, DataReceived, AppExits,
           StartSucceeds
      <3>2. \A t \in Session : Outside(t) <=> Outside(t)'
        BY <2>3 DEF ChannelMade, PtyRequested, DataReceived, AppExits,
           StartSucceeds, Requestable
      <3> QED
        BY <3>1, <3>2, OnlyFrees
    <2> QED
      BY <1>1, <2>1, <2>2, <2>3 DEF SessionStep
  <1>2. ASSUME NEW c \in Conn, ConnectionLost(c)
        PROVE  Slots!Next
    <2>1. \A t \in registered : closing'[t] = "no" => closing[t] = "no"
      BY <1>2 DEF ConnectionLost, RequestClose
    <2>2. stage' = stage /\ registered' = registered
      BY <1>2 DEF ConnectionLost
    <2> QED
      BY <2>1, <2>2, OnlyAsks
  <1>3. CASE StopDrains
    <2>1. \A t \in registered : closing'[t] = "no" => closing[t] = "no"
      BY <1>3 DEF StopDrains, RequestClose
    <2>2. stage' = stage /\ registered' = registered
      BY <1>3 DEF StopDrains
    <2> QED
      BY <2>1, <2>2, OnlyAsks
  <1>4. CASE StopForces \/ DrainEnds
    <2>1. stage' = stage /\ registered' = {}
      BY <1>4 DEF StopForces, DrainEnds, AbortStragglers, Abort
    <2> QED
      BY <2>1, OnlyFrees
  <1>5. CASE StopWithNobody \/ StopReturns \/ Tick \/ Stopped \/ UNCHANGED vars
    <2>1. stage' = stage /\ registered' = registered /\ closing' = closing
      BY <1>5 DEF StopWithNobody, StopReturns, Tick, Stopped, vars
    <2> QED
      BY <2>1, OnlyFrees
  <1> QED
    BY <1>1, <1>2, <1>3, <1>4, <1>5, StepAdmits DEF Next, StopStep

(* Every behaviour of the sessions is a behaviour of the abstract slots, as *)
(* far as safety goes (that slots are always given back is TLC's).          *)
THEOREM SlotsRefined == Spec => Slots!Safety
  <1>1. Init => Slots!Init /\ OutsideHasNothing
    BY DEF Init, Slots!Init, slotOf, SlotOf, OutsideHasNothing, Outside
  <1>2. TypeOK /\ OutsideHasNothing /\ [Next]_vars => OutsideHasNothing'
    BY StepOutside
  <1>3. TypeOK /\ TypeOK' /\ OutsideHasNothing /\ OutsideHasNothing' /\ [Next]_vars
        => [Slots!Next]_slotOf
    BY StepRefines
  <1> QED
    BY <1>1, <1>2, <1>3, TypeCorrect, PTL DEF Spec, Slots!Safety

-----------------------------------------------------------------------------
(* What session.ended tells: the session has left nothing behind.           *)

(* It has no app, no slot and no open channel, and never will again.        *)
EndedIsOver ==
    \A s \in Session :
        closing[s] = "done" =>
            ~AppLive(s) /\ s \notin registered /\ chan[s] \in {"closed", "lost"}

StartedHasChannel == \A s \in Session : stage[s] = "started" => chan[s] # "none"

EndedInv == EndedIsOver /\ StartedHasChannel

LEMMA FinishEnds ==
  ASSUME TypeOK, EndedInv, NEW s \in Session, FinishClose(s), ~AppLive(s), chan[s] # "none",
         UNCHANGED << stage, app >>
  PROVE  EndedInv'
  <1> USE DEF TypeOK, EndedInv, EndedIsOver, StartedHasChannel, AppLive
  <1>1. /\ \A t \in Session \ {s} : chan'[t] = chan[t] /\ closing'[t] = closing[t]
        /\ registered' = registered \ {s}
    BY DEF FinishClose, CloseChannel, Release
  <1>2. chan'[s] \in {"closed", "lost"}
    BY DEF FinishClose, CloseChannel, Chans
  <1> QED
    BY <1>1, <1>2

LEMMA StepEnded ==
  ASSUME ~LateStart, TypeOK, RegistryInv, OutsideHasNothing, EndedInv, [Next]_vars
  PROVE  EndedInv'
  <1> USE DEF TypeOK, EndedInv, EndedIsOver, StartedHasChannel, AppLive
  <1>1. ASSUME NEW s \in Session, SessionStep(s)
        PROVE  EndedInv'
    <2>1. CASE SessionRequested(s)
      <3>1. closing[s] # "done" /\ registered' \subseteq registered \union {s}
            /\ UNCHANGED << app, chan, closing >>
            /\ \A t \in Session : stage'[t] = "started" => stage[t] = "started"
        BY <2>1 DEF SessionRequested, OutsideHasNothing, Outside
      <3> QED
        BY <3>1
    <2>2. CASE ChannelMade(s) \/ PtyRequested(s) \/ DataReceived(s)
      BY <2>2 DEF ChannelMade, PtyRequested, DataReceived
    <2>3. CASE StartFails(s)
      <3>1. /\ chan[s] # "none" /\ registered' \subseteq registered
            /\ stage' = [stage EXCEPT ![s] = "started"] /\ UNCHANGED << app, closing >>
        BY <2>3 DEF StartFails, Requestable, Release
      <3>2. \A t \in Session : chan'[t] = chan[t] \/ (chan[t] = "open" /\ chan'[t] = "closed")
        BY <2>3 DEF StartFails, CloseChannel
      <3> QED
        BY <3>1, <3>2
    <2>4. CASE StartSucceeds(s)
      <3>1. chan[s] = "open" /\ closing[s] # "done"
        BY <2>4 DEF StartSucceeds, Requestable
      <3> QED
        BY <2>4, <3>1 DEF StartSucceeds
    <2>5. CASE ChannelLost(s)
      BY <2>5 DEF ChannelLost, RequestClose
    <2>6. ASSUME NEW d \in Deadlines, DeadlineExpires(s, d)
          PROVE  EndedInv'
      BY <2>6 DEF DeadlineExpires
    <2>7. CASE AppExits(s) \/ AppFinished(s)
      BY <2>7 DEF AppExits, AppFinished, RequestClose
    <2>8. CASE CloseBegins(s)
      <3>1. CASE app[s] # "none" /\ Grace(s) > 0
        BY <2>8, <3>1 DEF CloseBegins
      <3>2. CASE ~(app[s] # "none" /\ Grace(s) > 0)
        BY <2>8, <3>2, FinishEnds DEF CloseBegins
      <3> QED
        BY <3>1, <3>2
    <2>9. CASE CloseSeesExit(s) \/ CloseAfterCancel(s)
      <3>1. chan[s] # "none"
        BY <2>9 DEF CloseSeesExit, CloseAfterCancel, RegistryInv, AppFollowsStart,
           ClosingWaitsForApp
      <3> QED
        BY <2>9, <3>1, FinishEnds DEF CloseSeesExit, CloseAfterCancel
    <2>10. CASE CloseCancels(s)
      BY <2>10 DEF CloseCancels
    <2> QED
      BY <1>1, <2>1, <2>2, <2>3, <2>4, <2>5, <2>6, <2>7, <2>8, <2>9, <2>10
         DEF SessionStep
  <1>2. ASSUME NEW c \in Conn, ConnectionLost(c)
        PROVE  EndedInv'
    BY <1>2 DEF ConnectionLost, RequestClose
  <1>3. CASE StopForces \/ DrainEnds
    <2>1. /\ stage' = stage /\ registered' = {}
          /\ \A s \in Session : AppLive(s)' <=> AppLive(s)
          /\ \A s \in Session : chan'[s] = chan[s]
                                \/ (chan[s] = "open" /\ chan'[s] = "closed")
          /\ \A s \in Session : closing'[s] = "done" <=> closing[s] = "done"
      BY <1>3 DEF StopForces, DrainEnds, AbortStragglers, Abort, CloseChannel, RequestClose
    <2> QED
      BY <2>1
  <1>4. CASE StopWithNobody \/ StopDrains \/ StopReturns
    BY <1>4 DEF StopWithNobody, StopDrains, StopReturns, RequestClose
  <1>5. CASE Tick \/ Stopped \/ UNCHANGED vars
    BY <1>5 DEF Tick, Stopped, vars
  <1> QED
    BY <1>1, <1>2, <1>3, <1>4, <1>5 DEF Next, StopStep

(* Whoever is told that a session has ended may rely on it: its app, its    *)
(* slot and its channel are gone, whichever way it went, and stay gone.     *)
THEOREM EndedSessionsAreOver ==
  ASSUME ~LateStart
  PROVE  Spec => []EndedIsOver
  <1>1. Init => OutsideHasNothing /\ EndedInv
    BY DEF Init, OutsideHasNothing, Outside, EndedInv, EndedIsOver, StartedHasChannel
  <1>2. TypeOK /\ OutsideHasNothing /\ [Next]_vars => OutsideHasNothing'
    BY StepOutside
  <1>3. TypeOK /\ RegistryInv /\ OutsideHasNothing /\ EndedInv /\ [Next]_vars => EndedInv'
    BY StepEnded
  <1>4. EndedInv => EndedIsOver
    BY DEF EndedInv
  <1> QED
    BY <1>1, <1>2, <1>3, <1>4, FrozenAlways, TypeCorrect, PTL DEF Spec

-----------------------------------------------------------------------------
(* After the drain nobody goes on as if nothing had happened.               *)

(* An aborted app is cancelled, and none can start in its place.            *)
AbortedIsCancelled == \A s \in Session : aborted[s] => app[s] # "running"

LEMMA StepAborted ==
  ASSUME TypeOK, FrozenInv, AbortedIsCancelled, [Next]_vars
  PROVE  AbortedIsCancelled'
  <1> USE DEF TypeOK, AbortedIsCancelled
  <1>1. ASSUME NEW s \in Session, SessionStep(s)
        PROVE  AbortedIsCancelled'
    <2>1. aborted' = aborted
      BY <1>1 DEF SessionStep, SessionRequested, ChannelMade, PtyRequested, StartFails,
         StartSucceeds, DataReceived, ChannelLost, DeadlineExpires, AppExits, AppFinished,
         CloseBegins, CloseSeesExit, CloseCancels, CloseAfterCancel
    <2>2. CASE StartSucceeds(s)
      <3>1. ~aborted[s] /\ app' = [app EXCEPT ![s] = "running"]
        BY <2>2 DEF StartSucceeds, Requestable, FrozenInv, ClosingAborts
      <3> QED
        BY <2>1, <3>1
    <2>3. CASE ~StartSucceeds(s)
      <3>1. \A t \in Session : app'[t] = "running" => app[t] = "running"
        BY <1>1, <2>3 DEF SessionStep, SessionRequested, ChannelMade, PtyRequested,
           StartFails, DataReceived, ChannelLost, DeadlineExpires, AppExits, AppFinished,
           CloseBegins, CloseSeesExit, CloseCancels, CloseAfterCancel
      <3> QED
        BY <2>1, <3>1
    <2> QED
      BY <2>2, <2>3
  <1>2. ASSUME NEW c \in Conn, ConnectionLost(c)
        PROVE  AbortedIsCancelled'
    BY <1>2 DEF ConnectionLost
  <1>3. CASE StopForces \/ DrainEnds
    BY <1>3 DEF StopForces, DrainEnds, AbortStragglers, Abort
  <1>4. CASE StopWithNobody \/ StopDrains \/ StopReturns \/ Tick \/ Stopped \/ UNCHANGED vars
    BY <1>4 DEF StopWithNobody, StopDrains, StopReturns, Tick, Stopped, vars
  <1> QED
    BY <1>1, <1>2, <1>3, <1>4 DEF Next, StopStep

LEMMA AbortedAlways ==
  ASSUME ~LateStart
  PROVE  Spec => []AbortedIsCancelled
  <1>1. Init => AbortedIsCancelled
    BY DEF Init, AbortedIsCancelled
  <1>2. TypeOK /\ FrozenInv /\ AbortedIsCancelled /\ [Next]_vars => AbortedIsCancelled'
    BY StepAborted
  <1> QED
    BY <1>1, <1>2, FrozenAlways, TypeCorrect, PTL DEF Spec

(* Once the drain is over every app has ended or has been told to by its    *)
(* cancellation, those admitted in mid-drain included, and none starts: of  *)
(* StopEndsApps, all but that a cancelled task ends.                        *)
THEOREM NobodyRunsOn ==
  ASSUME ~LateStart
  PROVE  Spec => [](stop \in {"disconnecting", "stopped"} =>
                      \A s \in Session : app[s] # "running")
  <1>1. DrainLeavesNobody /\ RegistryInv /\ AbortedIsCancelled =>
          (stop \in {"disconnecting", "stopped"} => \A s \in Session : app[s] # "running")
    BY DEF DrainLeavesNobody, RegistryInv, LiveAppsAreRegistered, AppLive,
       AbortedIsCancelled
  <1> QED
    BY <1>1, DrainEmptiesRegistry, FrozenAlways, AbortedAlways, PTL

-----------------------------------------------------------------------------
(* When the grace of stop() is the one that counts.                         *)

(* An app that drain() asked has waited no longer than the drain, whose     *)
(* grace is at most that of _close.                                         *)
GraceLimit ==
    /\ stop = "serving" => \A s \in Session : reason[s] # "server_shutdown"
    /\ \A s \in Session : closing[s] \in {"no", "scheduled"} => waited[s] = 0
    /\ stop = "draining" =>
          /\ drainLeft <= ShutdownGrace
          /\ \A s \in Session :
                reason[s] = "server_shutdown" /\ closing[s] \in {"scheduled", "waiting"} =>
                    drainLeft + waited[s] <= ShutdownGrace

NoLongerThanConfigured == \A g \in StopGraces : g <= ShutdownGrace

LEMMA StepGraceLimit ==
  ASSUME NoLongerThanConfigured, TypeOK, GraceLimit, [Next]_vars
  PROVE  GraceLimit'
  <1> USE SessionsAssumption DEF TypeOK, GraceLimit
  <1>1. ASSUME NEW s \in Session, SessionStep(s)
        PROVE  GraceLimit'
    <2>0. UNCHANGED << stop, waited, drainLeft >>
      BY <1>1 DEF SessionStep, SessionRequested, ChannelMade, PtyRequested, StartFails,
         StartSucceeds, DataReceived, ChannelLost, DeadlineExpires, AppExits, AppFinished,
         CloseBegins, CloseSeesExit, CloseCancels, CloseAfterCancel
    <2>1. CASE ChannelLost(s) \/ AppFinished(s)
      <3>1. \A t \in Session :
               \/ closing'[t] = closing[t] /\ reason'[t] = reason[t]
               \/ /\ closing[t] = "no" /\ closing'[t] = "scheduled"
                  /\ reason'[t] # "server_shutdown"
        BY <2>1 DEF ChannelLost, AppFinished, RequestClose
      <3> QED
        BY <2>0, <3>1
    <2>2. ASSUME NEW d \in Deadlines, DeadlineExpires(s, d)
          PROVE  GraceLimit'
      <3>1. \A t \in Session :
               \/ closing'[t] = closing[t] /\ reason'[t] = reason[t]
               \/ /\ closing[t] = "no" /\ closing'[t] = "scheduled"
                  /\ reason'[t] # "server_shutdown"
        BY <2>2 DEF DeadlineExpires, Deadlines
      <3> QED
        BY <2>0, <3>1
    <2>3. CASE CloseBegins(s) \/ CloseSeesExit(s) \/ CloseAfterCancel(s) \/ CloseCancels(s)
      <3>1. /\ reason' = reason
            /\ \A t \in Session :
                  \/ closing'[t] = closing[t]
                  \/ closing[t] = "scheduled" /\ closing'[t] = "waiting"
                  \/ closing'[t] \in {"cancelling", "done"}
        BY <2>3 DEF CloseBegins, CloseSeesExit, CloseAfterCancel, CloseCancels, FinishClose
      <3> QED
        BY <2>0, <3>1
    <2>4. CASE UNCHANGED << closing, reason >>
      BY <2>0, <2>4
    <2> QED
      BY <1>1, <2>1, <2>2, <2>3, <2>4
         DEF SessionStep, SessionRequested, ChannelMade, PtyRequested, StartFails,
             StartSucceeds, DataReceived, AppExits
  <1>2. ASSUME NEW c \in Conn, ConnectionLost(c)
        PROVE  GraceLimit'
    <2>1. \A t \in Session :
             \/ closing'[t] = closing[t] /\ reason'[t] = reason[t]
             \/ /\ closing[t] = "no" /\ closing'[t] = "scheduled"
                /\ reason'[t] # "server_shutdown"
      BY <1>2 DEF ConnectionLost, RequestClose
    <2>2. UNCHANGED << stop, waited, drainLeft >>
      BY <1>2 DEF ConnectionLost
    <2> QED
      BY <2>1, <2>2
  <1>3. CASE StopDrains
    <2>1. stop' = "draining" /\ drainLeft' \in Nat /\ drainLeft' <= ShutdownGrace
          /\ stop = "serving" /\ waited' = waited
      BY <1>3 DEF StopDrains, NoLongerThanConfigured
    <2>2. \A t \in Session :
             \/ /\ closing'[t] = closing[t] /\ reason'[t] = reason[t]
                /\ reason[t] # "server_shutdown"
             \/ closing[t] = "no" /\ closing'[t] = "scheduled"
      BY <1>3, <2>1 DEF StopDrains, RequestClose
    <2> QED
      BY <2>1, <2>2
  <1>4. CASE StopForces \/ DrainEnds
    <2>1. /\ stop' = "disconnecting" /\ waited' = waited
          /\ \A t \in Session : closing'[t] = closing[t]
                                \/ (closing[t] = "no" /\ closing'[t] = "scheduled")
      BY <1>4 DEF StopForces, DrainEnds, AbortStragglers, Abort, RequestClose
    <2> QED
      BY <2>1
  <1>5. CASE StopWithNobody \/ StopReturns
    BY <1>5 DEF StopWithNobody, StopReturns
  <1>6. CASE Tick
    <2>1. /\ UNCHANGED << closing, reason, stop >>
          /\ \A t \in Session :
                IF closing[t] = "waiting" /\ waited[t] < ShutdownGrace
                THEN waited'[t] = waited[t] + 1 ELSE waited'[t] = waited[t]
          /\ stop = "draining" =>
                drainLeft' = IF drainLeft > 0 THEN drainLeft - 1 ELSE drainLeft
      BY <1>6 DEF Tick
    <2> QED
      BY <2>1
  <1>7. CASE Stopped \/ UNCHANGED vars
    BY <1>7 DEF Stopped, vars
  <1> QED
    BY <1>1, <1>2, <1>3, <1>4, <1>5, <1>6, <1>7 DEF Next, StopStep

LEMMA StepOverrides ==
  ASSUME TypeOK, RegistryInv, AbortedIsCancelled, DrainInv, DrainedMeansEmptied, GraceLimit,
         [Next]_vars, NEW s \in Session, app[s] = "running", app'[s] = "cancelled",
         reason'[s] = "server_shutdown"
  PROVE  drainLeft' = 0
  <1> USE SessionsAssumption DEF TypeOK
  <1>1. CASE CloseCancels(s)
    <2>1. /\ reason[s] = "server_shutdown" /\ drainLeft' = drainLeft
          /\ \/ closing[s] = "scheduled" /\ ShutdownGrace = 0
             \/ closing[s] = "waiting" /\ waited[s] >= ShutdownGrace
      BY <1>1 DEF CloseCancels, Grace
    <2>2. s \in registered
      BY DEF RegistryInv, LiveAppsAreRegistered, AppLive, AbortedIsCancelled
    <2>3. stop = "draining"
      BY <2>1, <2>2 DEF GraceLimit, DrainInv, DrainLeavesNobody, Stops
    <2>4. drainLeft + waited[s] <= ShutdownGrace
      BY <2>1, <2>3 DEF GraceLimit
    <2> QED
      BY <2>1, <2>4
  <1>2. CASE StopForces
    BY <1>2 DEF StopForces
  <1>3. CASE DrainEnds
    BY <1>3 DEF DrainEnds, AbortStragglers, Abort, DrainedMeansEmptied
  <1>4. ASSUME NEW t \in Session, SessionStep(t), ~CloseCancels(s)
        PROVE  FALSE
    BY <1>4 DEF SessionStep, SessionRequested, ChannelMade, PtyRequested,
       StartFails, StartSucceeds, DataReceived, ChannelLost, DeadlineExpires,
       AppExits, AppFinished, CloseBegins, CloseSeesExit, CloseCancels,
       CloseAfterCancel
  <1>5. ASSUME NEW c \in Conn, ConnectionLost(c)
        PROVE  FALSE
    BY <1>5 DEF ConnectionLost
  <1>6. CASE StopWithNobody \/ StopDrains \/ StopReturns \/ Tick \/ Stopped
             \/ UNCHANGED vars
    BY <1>6 DEF StopWithNobody, StopDrains, StopReturns, Tick, Stopped, vars
  <1> QED
    BY <1>1, <1>2, <1>3, <1>4, <1>5, <1>6 DEF Next, StopStep

(* The grace of stop(grace) overrides the configured one, as it is          *)
(* documented, whenever it is no longer than that: no app the drain asked   *)
(* is cancelled before the drain is at its end.                             *)
THEOREM ShortStopGraceIsKept ==
  ASSUME ~LateStart, NoLongerThanConfigured
  PROVE  Spec => StopGraceOverrides
  <1> DEFINE Kept ==
        \A s \in Session :
          /\ app[s] = "running"
          /\ app'[s] = "cancelled"
          /\ reason'[s] = "server_shutdown"
          => drainLeft' = 0
  <1>1. Init => DrainInv /\ DrainedMeansEmptied /\ GraceLimit
    BY DEF Init, DrainInv, DrainedMeansEmptied, GraceLimit
  <1>2. TypeOK /\ DrainInv /\ [Next]_vars => DrainInv'
    BY StepDrain
  <1>3. TypeOK /\ DrainedMeansEmptied /\ [Next]_vars => DrainedMeansEmptied'
    BY StepDrained
  <1>4. TypeOK /\ GraceLimit /\ [Next]_vars => GraceLimit'
    BY StepGraceLimit
  <1>5. TypeOK /\ RegistryInv /\ AbortedIsCancelled /\ DrainInv /\ DrainedMeansEmptied
          /\ GraceLimit /\ [Next]_vars => [Kept]_vars
    BY StepOverrides
  <1>6. Spec => [][Kept]_vars
    <2> HIDE DEF Kept
    <2> QED
      BY <1>1, <1>2, <1>3, <1>4, <1>5, FrozenAlways, AbortedAlways, TypeCorrect, PTL DEF Spec
  <1> QED
    BY <1>6 DEF StopGraceOverrides
=============================================================================
