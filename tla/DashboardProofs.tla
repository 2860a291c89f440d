--------------------------- MODULE DashboardProofs ---------------------------
(***************************************************************************)
(* What the dashboard promises, for any number of windows: it rests on     *)
(* what SessionsProofs says of the server below it.                        *)
(***************************************************************************)
EXTENDS Dashboard, SessionsProofs

LEMMA SamplerInit == DashboardInit => DashboardTypeOK
  BY DEF DashboardInit, DashboardTypeOK, Tasks, SamplesWhileWatched

LEMMA HookTyped ==
  ASSUME DashboardTypeOK, Hook
  PROVE  DashboardTypeOK'
  <1> USE DEF DashboardTypeOK, Tasks, SamplesWhileWatched
  <1>1. ASSUME NEW s \in Session, Join(s)
        PROVE  DashboardTypeOK'
    BY <1>1 DEF Join
  <1>2. ASSUME NEW s \in Session, Leave(s)
        PROVE  DashboardTypeOK'
    <2>1. viewers' = viewers \ {s} /\ seen' = seen \ {s}
      BY <1>2 DEF Leave
    <2>2. CASE viewers \subseteq {s}
      BY <1>2, <2>1, <2>2 DEF Leave
    <2>3. CASE ~(viewers \subseteq {s})
      BY <1>2, <2>1, <2>3 DEF Leave
    <2> QED
      BY <2>2, <2>3
  <1>3. CASE UNCHANGED sampler
    BY <1>3 DEF sampler
  <1> QED
    BY <1>1, <1>2, <1>3 DEF Hook

LEMMA SamplerTyped ==
  ASSUME DashboardTypeOK, [DashboardNext]_dashboardVars
  PROVE  DashboardTypeOK'
  <1>1. CASE ServerStep
    BY <1>1, HookTyped DEF ServerStep
  <1>2. CASE SamplerStep
    BY <1>2 DEF SamplerStep, PrimeEnds, SleepEnds, SampleEnds, SamplerDies,
       OrphanEnds, InThread, DashboardTypeOK, Tasks, SamplesWhileWatched
  <1>3. CASE UNCHANGED dashboardVars
    BY <1>3 DEF dashboardVars, sampler, DashboardTypeOK, SamplesWhileWatched
  <1> QED
    BY <1>1, <1>2, <1>3 DEF DashboardNext

(* The sampler has its task exactly while somebody watches, and every       *)
(* variable keeps to its values.                                            *)
THEOREM SamplesOnlyForViewers == DashboardSpec => []DashboardTypeOK
  BY SamplerInit, SamplerTyped, PTL DEF DashboardSpec

-----------------------------------------------------------------------------
(* The server takes no notice of the hook.                                  *)
LEMMA StepOfServer == [DashboardNext]_dashboardVars => [Next]_vars
  BY DEF DashboardNext, ServerStep, SamplerStep, dashboardVars

(* A step of the dashboard is, by the way Dashboard is composed, a step of  *)
(* the server or none of its business.  That says nothing of the hook; it   *)
(* carries over what is proved of Sessions.                                 *)
LEMMA ServerIsKept == DashboardSpec => Spec
  <1>1. DashboardInit => Init
    BY DEF DashboardInit
  <1> QED
    BY <1>1, StepOfServer, PTL DEF DashboardSpec, Spec

(* In particular its windows take the abstract slots and give them back.    *)
COROLLARY WindowsKeepToSlots == DashboardSpec => Slots!Safety
  BY ServerIsKept, SlotsRefined, PTL

LEMMA ServerInv ==
  ASSUME ~LateStart
  PROVE  DashboardSpec => [](TypeOK /\ RegistryInv)
  <1>1. DashboardInit => TypeOK /\ RegistryInv
    BY InitTyped DEF DashboardInit, Init, RegistryInv, AppFollowsStart,
       StartableIsRegistered, ClosingWaitsForApp, LiveAppsAreRegistered, AppLive
  <1>2. TypeOK /\ RegistryInv /\ [DashboardNext]_dashboardVars
          => (TypeOK /\ RegistryInv)'
    BY StepOfServer, StepTyped, StepRegistry
  <1> QED
    BY <1>1, <1>2, PTL DEF DashboardSpec

-----------------------------------------------------------------------------
(* A window is registered from the start of its app to the end of its       *)
(* session, and a session that has ended can start no app any more.         *)
WindowInv ==
    \A s \in Session :
        /\ s \in viewers <=> app[s] # "none" /\ closing[s] # "done"
        /\ s \in viewers => s \in registered \/ aborted[s]
        /\ AppLive(s) => closing[s] # "done"
        /\ closing[s] = "done" => stage[s] = "started" \/ chan[s] \notin {"none", "open"}

(* The three kinds of step as the hook sees them: an app starts, a session  *)
(* ends, or neither.                                                        *)
Starts(s) ==
    /\ s \in registered \/ aborted[s]
    /\ app[s] = "none" /\ closing[s] # "done"
    /\ app' = [app EXCEPT ![s] = "running"]
    /\ \A t \in Session : stage[t] = "started" => stage'[t] = "started"
    /\ UNCHANGED << closing, registered, aborted, chan >>

Ends(s) ==
    /\ closing' = [closing EXCEPT ![s] = "done"]
    /\ closing[s] # "done" /\ ~AppLive(s)
    /\ stage[s] = "started" \/ chan[s] # "none"
    /\ CloseChannel({s})
    /\ registered' = registered \ {s}
    /\ UNCHANGED << app, aborted, stage >>

Quiet ==
    \A s \in Session :
        /\ app'[s] = "none" <=> app[s] = "none"
        /\ AppLive(s)' => AppLive(s)
        /\ closing'[s] = "done" <=> closing[s] = "done"
        /\ aborted[s] => aborted'[s]
        /\ s \in registered /\ app[s] # "none" => s \in registered' \/ aborted'[s]
        /\ closing[s] = "done" /\ chan[s] \notin {"none", "open"} =>
              chan'[s] \notin {"none", "open"}
        /\ stage[s] = "started" => stage'[s] = "started"

LEMMA Moves ==
  ASSUME ~LateStart, TypeOK, RegistryInv, WindowInv, [Next]_vars
  PROVE  Quiet \/ \E s \in Session : Starts(s) \/ Ends(s)
  <1> USE DEF TypeOK, AppLive
  <1>1. ASSUME NEW s \in Session, SessionStep(s)
        PROVE  Quiet \/ Starts(s) \/ Ends(s)
    <2>1. CASE SessionRequested(s)
      BY <2>1 DEF SessionRequested, Quiet
    <2>2. CASE ChannelMade(s) \/ PtyRequested(s) \/ DataReceived(s)
      BY <2>2 DEF ChannelMade, PtyRequested, DataReceived, Quiet
    <2>3. CASE StartFails(s)
      <3>1. app[s] = "none"
        BY <2>3 DEF StartFails, Requestable, RegistryInv, AppFollowsStart
      <3> QED
        BY <2>3, <3>1 DEF StartFails, CloseChannel, Release, Quiet
    <2>4. CASE StartSucceeds(s)
      <3>1. stage[s] = "admitted" /\ chan[s] = "open"
        BY <2>4 DEF StartSucceeds, Requestable
      <3>2. app[s] = "none" /\ closing[s] # "done" /\ (s \in registered \/ aborted[s])
        BY <3>1 DEF RegistryInv, AppFollowsStart, StartableIsRegistered, WindowInv
      <3> QED
        BY <2>4, <3>2 DEF StartSucceeds, Starts
    <2>5. CASE ChannelLost(s)
      BY <2>5 DEF ChannelLost, RequestClose, Quiet
    <2>6. ASSUME NEW d \in Deadlines, DeadlineExpires(s, d)
          PROVE  Quiet
      BY <2>6 DEF DeadlineExpires, Quiet
    <2>7. CASE AppExits(s) \/ AppFinished(s)
      BY <2>7 DEF AppExits, AppFinished, RequestClose, Quiet
    <2>8. ASSUME FinishClose(s), ~AppLive(s), closing[s] # "done",
                 stage[s] = "started" \/ chan[s] # "none",
                 UNCHANGED << app, aborted, stage >>
          PROVE  Ends(s)
      BY <2>8 DEF FinishClose, Release, Ends
    <2>9. CASE CloseBegins(s)
      <3>1. CASE app[s] # "none" /\ Grace(s) > 0
        BY <2>9, <3>1 DEF CloseBegins, Quiet
      <3>2. CASE ~(app[s] # "none" /\ Grace(s) > 0)
        BY <2>8, <2>9, <3>2 DEF CloseBegins
      <3> QED
        BY <3>1, <3>2
    <2>10. CASE CloseSeesExit(s) \/ CloseAfterCancel(s)
      <3>1. stage[s] = "started" /\ closing[s] # "done"
        BY <2>10 DEF CloseSeesExit, CloseAfterCancel, RegistryInv,
           AppFollowsStart, ClosingWaitsForApp
      <3> QED
        BY <2>8, <2>10, <3>1 DEF CloseSeesExit, CloseAfterCancel
    <2>11. CASE CloseCancels(s)
      BY <2>11 DEF CloseCancels, Quiet
    <2> QED
      BY <1>1, <2>1, <2>2, <2>3, <2>4, <2>5, <2>6, <2>7, <2>9, <2>10, <2>11
         DEF SessionStep
  <1>2. ASSUME NEW c \in Conn, ConnectionLost(c)
        PROVE  Quiet
    BY <1>2 DEF ConnectionLost, RequestClose, Quiet
  <1>3. CASE StopForces \/ DrainEnds
    <2>1. stage' = stage /\ Abort(registered)
      BY <1>3 DEF StopForces, DrainEnds, AbortStragglers
    <2>2. \A s \in Session : closing'[s] = "done" <=> closing[s] = "done"
      BY <1>3 DEF StopForces, DrainEnds, RequestClose
    <2>3. \A s \in Session :
             /\ app'[s] = "none" <=> app[s] = "none"
             /\ AppLive(s)' => AppLive(s)
             /\ aborted[s] \/ s \in registered => aborted'[s]
             /\ chan[s] \notin {"none", "open"} => chan'[s] \notin {"none", "open"}
      BY <2>1 DEF Abort, CloseChannel
    <2> QED
      BY <2>1, <2>2, <2>3 DEF Quiet
  <1>4. CASE StopWithNobody \/ StopDrains \/ StopReturns \/ Tick \/ Stopped
              \/ UNCHANGED vars
    BY <1>4 DEF StopWithNobody, StopDrains, StopReturns, RequestClose, Tick,
       Stopped, vars, Quiet
  <1> QED
    BY <1>1, <1>2, <1>3, <1>4 DEF Next, StopStep

LEMMA WindowStep ==
  ASSUME ~LateStart, DashboardTypeOK, TypeOK, RegistryInv, WindowInv,
         [DashboardNext]_dashboardVars
  PROVE  WindowInv'
  <1>1. CASE ServerStep
    <2>0. [Next]_vars /\ Hook
      BY <1>1 DEF ServerStep
    <2>1. ASSUME NEW s \in Session, Starts(s)
          PROVE  WindowInv'
      <3>1. /\ Started(s)
            /\ \A t \in Session : ~Ended(t) /\ (Started(t) => t = s)
        BY <2>1 DEF Starts, Started, Ended, TypeOK
      <3>2. viewers' = viewers \union {s}
        BY <2>0, <3>1 DEF Hook, Join
      <3> QED
        BY <2>1, <3>2 DEF Starts, WindowInv, AppLive, TypeOK
    <2>2. ASSUME NEW s \in Session, Ends(s)
          PROVE  WindowInv'
      <3>1. /\ Ended(s)
            /\ \A t \in Session : ~Started(t) /\ (Ended(t) => t = s)
        BY <2>2 DEF Ends, Started, Ended, TypeOK
      <3>2. viewers' = viewers \ {s}
        BY <2>0, <3>1 DEF Hook, Leave
      <3>3. \A t \in Session : chan'[t] = chan[t] \/ (t = s /\ chan'[t] = "closed")
        BY <2>2 DEF Ends, CloseChannel
      <3>4. chan[s] # "none" => chan'[s] \notin {"none", "open"}
        BY <2>2 DEF Ends, CloseChannel, TypeOK
      <3> QED
        BY <2>2, <3>2, <3>3, <3>4 DEF Ends, WindowInv, AppLive, TypeOK
    <2>3. CASE Quiet
      <3>1. \A t \in Session : ~Started(t) /\ ~Ended(t)
        BY <2>3 DEF Quiet, Started, Ended
      <3>2. viewers' = viewers
        BY <2>0, <3>1 DEF Hook, sampler
      <3> QED
        BY <2>3, <3>2 DEF Quiet, WindowInv
    <2> QED
      BY <2>0, <2>1, <2>2, <2>3, Moves
  <1>2. CASE SamplerStep \/ UNCHANGED dashboardVars
    <2>1. UNCHANGED vars /\ viewers' = viewers
      BY <1>2 DEF SamplerStep, PrimeEnds, SleepEnds, SampleEnds, SamplerDies,
         OrphanEnds, dashboardVars, sampler
    <2> QED
      BY <2>1 DEF vars, WindowInv, AppLive
  <1> QED
    BY <1>1, <1>2 DEF DashboardNext

(* The windows the sampler pokes are those of the sessions at work, for any *)
(* number of them and however they end, provided asyncssh serves no request *)
(* on a channel we have closed.                                             *)
THEOREM WindowsAreLive ==
  ASSUME ~LateStart
  PROVE  DashboardSpec => []ViewersAreLive
  <1>1. DashboardInit => WindowInv
    BY DEF DashboardInit, Init, WindowInv, AppLive
  <1>2. DashboardTypeOK /\ TypeOK /\ RegistryInv /\ WindowInv
          /\ [DashboardNext]_dashboardVars => WindowInv'
    BY WindowStep
  <1>3. WindowInv => ViewersAreLive
    BY DEF WindowInv, ViewersAreLive, AppLive
  <1> QED
    BY <1>1, <1>2, <1>3, ServerInv, SamplesOnlyForViewers, PTL DEF DashboardSpec
=============================================================================
