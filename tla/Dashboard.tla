------------------------------ MODULE Dashboard ------------------------------
(***************************************************************************)
(* An application on top of the sessions: examples/dashboard_ssh.py, whose *)
(* windows share one sampler.  The app factory registers a window with the *)
(* sampler while session_started() runs, the server's on_event hook takes  *)
(* it back when session.ended is emitted, and the sampler's task, which    *)
(* works in threads it cannot stop, lives while anybody watches.           *)
(*                                                                         *)
(* The server is the module Sessions, step for step: a step of this module *)
(* is one of the server's with what the hook does inside it, or one of the *)
(* sampler's.                                                              *)
(***************************************************************************)
EXTENDS Sessions

VARIABLES
    viewers,  \* Sampler.viewers
    task,     \* Sampler._task, and where in _run() it is
    orphans,  \* threads at work for a task that was cancelled
    seen      \* history: the viewers refreshed with a reading

sampler == << viewers, task, orphans, seen >>

dashboardVars == << vars, sampler >>

(* A task that died of an exception is still in _task.                      *)
Tasks == {"none", "priming", "sleeping", "sampling", "dead"}

(* await asyncio.to_thread(): cancelling the task leaves the thread alone.  *)
InThread == task \in {"priming", "sampling"}

DashboardInit ==
    /\ Init
    /\ viewers = {}
    /\ task = "none"
    /\ orphans = 0
    /\ seen = {}

-----------------------------------------------------------------------------
(* What the application does inside a step of the server.                   *)

(* Sampler.join(), which make_app calls last.                               *)
Join(s) ==
    /\ viewers' = viewers \union {s}
    /\ task' = IF task = "none" THEN "priming" ELSE task
    /\ UNCHANGED << orphans, seen >>

(* Mutant: the cancelled task is not forgotten.                             *)
LeaveKeepingTask(s) ==
    /\ viewers' = viewers \ {s}
    /\ seen' = seen \ {s}
    /\ task' = IF viewers \subseteq {s} /\ task # "none" THEN "dead" ELSE task
    /\ orphans' = IF viewers \subseteq {s} /\ InThread THEN orphans + 1 ELSE orphans

(* Mutant: the last one to leave does not turn off the light.               *)
LeaveSampling(s) ==
    /\ viewers' = viewers \ {s}
    /\ seen' = seen \ {s}
    /\ UNCHANGED << task, orphans >>

(* Sampler.leave(), also for a session that never joined.  The last one out *)
(* cancels the task; a thread that has not begun is cancelled with it.      *)
Leave(s) ==
    /\ viewers' = viewers \ {s}
    /\ seen' = seen \ {s}
    /\ IF viewers \subseteq {s}
       THEN /\ task' = "none"
            /\ orphans' \in {orphans, IF InThread THEN orphans + 1 ELSE orphans}
       ELSE UNCHANGED << task, orphans >>

(* session_started() has called the factory, and it returned an app.        *)
Started(s) == app[s] = "none" /\ app'[s] = "running"

(* Mutant: the hook listens for connection.closed, which tells of the peer. *)
EndedWithConnection(s) ==
    chan[s] # "lost" /\ chan'[s] = "lost"

(* The tail of _close has emitted session.ended, which on_server_event()    *)
(* passes on.                                                               *)
Ended(s) == closing[s] # "done" /\ closing'[s] = "done"

Hook ==
    \/ \E s \in Session : Started(s) /\ Join(s)
    \/ \E s \in Session : Ended(s) /\ Leave(s)
    \/ /\ \A s \in Session : ~Started(s) /\ ~Ended(s)
       /\ UNCHANGED sampler

ServerStep == Next /\ Hook

-----------------------------------------------------------------------------
(* Sampler._run(), from one await to the next.                              *)

PrimeEnds ==
    /\ task = "priming"
    /\ task' = "sleeping"
    /\ UNCHANGED << viewers, orphans, seen >>

SleepEnds ==
    /\ task = "sleeping"
    /\ task' = "sampling"
    /\ UNCHANGED << viewers, orphans, seen >>

(* Mutant: only the windows there were before the sample are refreshed.     *)
SampleEndsOnce ==
    /\ task = "sampling"
    /\ task' = "sleeping"
    /\ seen' = IF seen = {} THEN viewers ELSE seen
    /\ UNCHANGED << viewers, orphans >>

(* The reading is there, and every window is refreshed.                     *)
SampleEnds ==
    /\ task = "sampling"
    /\ task' = "sleeping"
    /\ seen' = viewers
    /\ UNCHANGED << viewers, orphans >>

(* _prime() or sample() raises in its thread, and the task ends of it.      *)
SamplerDies ==
    /\ InThread
    /\ task' = "dead"
    /\ UNCHANGED << viewers, orphans, seen >>

OrphanEnds ==
    /\ orphans > 0
    /\ orphans' = orphans - 1
    /\ UNCHANGED << viewers, task, seen >>

SamplerStep ==
    /\ PrimeEnds \/ SleepEnds \/ SampleEnds \/ SamplerDies \/ OrphanEnds
    /\ UNCHANGED vars

DashboardNext == ServerStep \/ SamplerStep

(* Threads end and timers expire.                                           *)
DashboardSpec ==
    /\ DashboardInit
    /\ [][DashboardNext]_dashboardVars
    /\ Fairness
    /\ WF_sampler(PrimeEnds)
    /\ WF_sampler(SleepEnds)
    /\ WF_sampler(SampleEnds)
    /\ WF_sampler(OrphanEnds)

-----------------------------------------------------------------------------
(* A dashboard nobody is watching costs nothing, and one that is watched    *)
(* has its task.                                                            *)
SamplesWhileWatched == task = "none" <=> viewers = {}

DashboardTypeOK ==
    /\ viewers \subseteq Session
    /\ task \in Tasks
    /\ orphans \in Nat
    /\ seen \subseteq viewers
    /\ SamplesWhileWatched

(* The windows the sampler pokes are those of the sessions at work: every   *)
(* live app is among them from before its task first runs until it has      *)
(* ended, and a session that is among them holds its slot still, unless a   *)
(* drain took it away by force.                                             *)
ViewersAreLive ==
    \A s \in Session :
        /\ AppLive(s) => s \in viewers
        /\ s \in viewers => closing[s] # "done" /\ (s \in registered \/ aborted[s])

(* Once the server has stopped nobody is left among the viewers, and no     *)
(* task or thread of the sampler goes on working, whatever way each session *)
(* ended.                                                                   *)
SamplingEnds ==
    stop = "stopped" ~> [](viewers = {} /\ task = "none" /\ orphans = 0)

(* Whoever stays long enough sees a reading, however the others come and    *)
(* go, unless the sampler died.                                             *)
ViewersGetReadings ==
    \A s \in Session :
        s \in viewers ~> s \in seen \/ s \notin viewers \/ task = "dead"

-----------------------------------------------------------------------------
(* What the documentation says of the program and the code does not do.     *)

(* examples/dashboard_ssh.py:169, join(): "Register a window and make sure  *)
(* the sampler is running".                                                 *)
JoinRunsSampler ==
    [][\A s \in Session : s \in viewers' \ viewers => task' # "dead"]_dashboardVars
=============================================================================
