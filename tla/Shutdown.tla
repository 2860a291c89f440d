------------------------------ MODULE Shutdown ------------------------------
(***************************************************************************)
(* The life of the server itself: start(), any number of concurrent        *)
(* stop() calls serialised by _stop_lock, run_async() that serves until    *)
(* _stopping is set, and run(), which wraps it in signal handlers and in a *)
(* stop() of its own.  What the drain does to sessions is the module       *)
(* Sessions; here a peer is a connection with its sessions.                *)
(*                                                                         *)
(* An action is one run of the event loop, from one await to the next.     *)
(***************************************************************************)
EXTENDS Naturals, FiniteSets

CONSTANTS
    Host,         \* tasks of the host application that call stop()
    Sig,          \* signals, each delivered at most once
    Main,         \* the task of run() or run_async()
    NoOne,        \* nobody: the holder of a free lock
    Modes,        \* the ways the server may be run
    MaxLive       \* the peers we look at

Caller == Host \union Sig \union {Main}

ASSUME ShutdownAssumption ==
    /\ NoOne \notin Caller
    /\ Main \notin Host \union Sig
    /\ Host \intersect Sig = {}
    /\ Modes \subseteq [owned: BOOLEAN, cancellable: BOOLEAN, restarts: BOOLEAN]
    /\ \A m \in Modes : m.owned => ~m.restarts
    /\ MaxLive \in Nat

VARIABLES
    main,      \* "new" | "starting" | "serving" | "left" run_async
    call,      \* where each caller is in stop()
    acceptor,  \* _acceptor: "none" | "listening" | "closed"
    stopping,  \* the event _stopping is set
    stopped,   \* _stopped
    holder,    \* who holds _stop_lock
    live,      \* how many peers are connected
    handlers,  \* our signal handlers are installed
    killed,    \* the process died of a signal
    mode       \* how this server is run; it never changes

vars == << main, call, acceptor, stopping, stopped, holder, live, handlers,
           killed, mode >>

Owned       == mode.owned        \* Main is run(), which owns the process
Cancellable == mode.cancellable  \* the host may cancel its tasks
Restarts    == mode.restarts     \* the server may be started again

(* "noop" is a stop() of a server that is not running, or an ignored signal; *)
(* "stale" waits for the lock of an earlier start().                         *)
Working == {"draining", "closing"}
Settled == {"noop", "returned", "cancelled", "raised"}
Calls   == {"idle", "scheduled", "locking", "stale"} \union Working \union Settled

Init ==
    /\ main = "new"
    /\ call = [t \in Caller |-> "idle"]
    /\ acceptor = "none"
    /\ stopping = FALSE
    /\ stopped = FALSE
    /\ holder = NoOne
    /\ live = 0
    /\ handlers = FALSE
    /\ killed = FALSE
    /\ mode \in Modes

Returned == main = "left" /\ (Owned => call[Main] \in Settled)

-----------------------------------------------------------------------------
(* start(), up to its await: a new event, a new lock and _stopped reset.    *)
(* Who waits for the old lock goes on waiting for it.                       *)
MainStarts ==
    /\ ~killed
    /\ \/ main = "new"
       \/ Restarts /\ main = "left" /\ acceptor = "none"
    /\ main' = "starting"
    /\ handlers' = Owned
    /\ stopping' = FALSE
    /\ stopped' = FALSE
    /\ holder' = NoOne
    /\ call' = [t \in Caller |-> IF call[t] = "locking" THEN "stale" ELSE call[t]]
    /\ UNCHANGED << acceptor, live, killed, mode >>

NobodyStale == \A t \in Caller : call[t] # "stale"

(* create_server() returns.  It takes several runs of the loop, by which    *)
(* time the waiters of an earlier lock, woken when it was released, have    *)
(* run.                                                                     *)
Listens ==
    /\ ~killed
    /\ main = "starting"
    /\ NobodyStale
    /\ main' = "serving"
    /\ acceptor' = "listening"
    /\ UNCHANGED << call, stopping, stopped, holder, live, handlers, killed, mode >>

(* create_server() raises; run()'s finally restores the handlers and calls  *)
(* a stop() that finds no acceptor.                                         *)
BindFails ==
    /\ ~killed
    /\ main = "starting"
    /\ NobodyStale
    /\ main' = "left"
    /\ handlers' = FALSE
    /\ call' = IF Owned THEN [call EXCEPT ![Main] = "noop"] ELSE call
    /\ UNCHANGED << acceptor, stopping, stopped, holder, live, killed, mode >>

-----------------------------------------------------------------------------
(* stop().                                                                  *)

(* Mutant: run_async() is not released.                                     *)
StopBodySilent(t) ==
    IF stopped
    THEN /\ call' = [call EXCEPT ![t] = "returned"]
         /\ UNCHANGED << acceptor, stopping, stopped, holder >>
    ELSE /\ call' = [call EXCEPT ![t] = IF live > 0 THEN "draining" ELSE "closing"]
         /\ acceptor' = "closed"
         /\ stopped' = TRUE
         /\ holder' = t
         /\ UNCHANGED stopping

(* With the lock: the first caller closes the listener, releases run_async  *)
(* and drains; the drain of nobody does not wait.                           *)
StopBody(t) ==
    IF stopped
    THEN /\ call' = [call EXCEPT ![t] = "returned"]
         /\ UNCHANGED << acceptor, stopping, stopped, holder >>
    ELSE /\ call' = [call EXCEPT ![t] = IF live > 0 THEN "draining" ELSE "closing"]
         /\ acceptor' = "closed"
         /\ stopping' = TRUE
         /\ stopped' = TRUE
         /\ holder' = t

LockFree == holder = NoOne /\ \A t \in Caller : call[t] # "locking"

(* Mutant: no lock, so that a second caller sees only _stopped.             *)
EnterStopUnlocked(t) ==
    IF acceptor = "none"
    THEN /\ call' = [call EXCEPT ![t] = "noop"]
         /\ UNCHANGED << acceptor, stopping, stopped, holder >>
    ELSE StopBody(t)

(* A call of stop(), up to its first await.                                 *)
EnterStop(t) ==
    IF acceptor = "none" \/ ~LockFree
    THEN /\ call' = [call EXCEPT ![t] =
                        IF acceptor = "none" THEN "noop" ELSE "locking"]
         /\ UNCHANGED << acceptor, stopping, stopped, holder >>
    ELSE StopBody(t)

(* The host calls stop(), as often as it likes.                             *)
StopCalled(t) ==
    /\ ~killed
    /\ call[t] \in {"idle"} \union Settled
    /\ EnterStop(t)
    /\ UNCHANGED << main, live, handlers, killed, mode >>

LockAcquired(t) ==
    /\ ~killed
    /\ call[t] = "locking"
    /\ holder = NoOne
    /\ StopBody(t)
    /\ UNCHANGED << main, live, handlers, killed, mode >>

(* A waiter of an earlier lock finds _stopped reset and no acceptor, and    *)
(* fails to close it.                                                       *)
StaleWakes(t) ==
    /\ ~killed
    /\ call[t] = "stale"
    /\ stopped' = TRUE
    /\ call' = [call EXCEPT ![t] = IF stopped THEN "returned" ELSE "raised"]
    /\ UNCHANGED << main, acceptor, stopping, holder, live, handlers, killed, mode >>

(* drain() returns, because everybody left or because the grace ran out and *)
(* the rest was aborted; the connections are told to go.                    *)
DrainEnds(t) ==
    /\ ~killed
    /\ call[t] = "draining"
    /\ call' = [call EXCEPT ![t] = "closing"]
    /\ UNCHANGED << main, acceptor, stopping, stopped, holder, live, handlers,
                    killed, mode >>

(* Mutant: the lock is kept.                                                *)
StopEndsHolding(t) ==
    /\ ~killed
    /\ call[t] = "closing"
    /\ live = 0
    /\ acceptor' = "none"
    /\ call' = [call EXCEPT ![t] = "returned"]
    /\ UNCHANGED << main, stopping, stopped, holder, live, handlers, killed, mode >>

(* wait_closed() returns, and the lock is released.                         *)
StopEnds(t) ==
    /\ ~killed
    /\ call[t] = "closing"
    /\ live = 0
    /\ acceptor' = "none"
    /\ holder' = NoOne
    /\ call' = [call EXCEPT ![t] = "returned"]
    /\ UNCHANGED << main, stopping, stopped, live, handlers, killed, mode >>

(* The host cancels a task that is inside stop().                           *)
StopCancelled(t) ==
    /\ ~killed
    /\ Cancellable
    /\ call[t] \in {"locking", "stale"} \union Working
    /\ call' = [call EXCEPT ![t] = "cancelled"]
    /\ holder' = IF holder = t THEN NoOne ELSE holder
    /\ UNCHANGED << main, acceptor, stopping, stopped, live, handlers, killed, mode >>

-----------------------------------------------------------------------------
(* run_async() and run().                                                   *)

(* Mutant: run() has no stop() of its own.                                  *)
MainWakesAndGoes ==
    /\ ~killed
    /\ main = "serving"
    /\ stopping
    /\ main' = "left"
    /\ handlers' = FALSE
    /\ call' = [call EXCEPT ![Main] = "noop"]
    /\ UNCHANGED << acceptor, stopping, stopped, holder, live, killed, mode >>

(* _stopping is set: run_async() returns, before the drain is over.  run()  *)
(* gives the signal handlers back and awaits a stop() of its own.           *)
MainWakes ==
    /\ ~killed
    /\ main = "serving"
    /\ stopping
    /\ main' = "left"
    /\ IF Owned
       THEN handlers' = FALSE /\ EnterStop(Main)
       ELSE UNCHANGED << handlers, call, acceptor, stopping, stopped, holder >>
    /\ UNCHANGED << live, killed, mode >>

(* The host cancels run_async(): nothing in it reacts.                      *)
MainCancelled ==
    /\ ~killed
    /\ Cancellable
    /\ ~Owned
    /\ main = "serving"
    /\ main' = "left"
    /\ UNCHANGED << call, acceptor, stopping, stopped, holder, live, handlers,
                    killed, mode >>

(* _signal_stop(): a stop() is scheduled, unless one has begun.             *)
SignalHandled(g) ==
    /\ ~killed
    /\ handlers
    /\ call[g] = "idle"
    /\ call' = [call EXCEPT ![g] = IF stopped THEN "noop" ELSE "scheduled"]
    /\ UNCHANGED << main, acceptor, stopping, stopped, holder, live, handlers,
                    killed, mode >>

(* The stop() a signal scheduled begins.                                    *)
SignalStops(g) ==
    /\ ~killed
    /\ call[g] = "scheduled"
    /\ EnterStop(g)
    /\ UNCHANGED << main, live, handlers, killed, mode >>

(* A signal while run() is at work and no handler is installed: the default *)
(* action of SIGTERM, and the KeyboardInterrupt of SIGINT, which ends the   *)
(* loop.                                                                    *)
SignalUnhandled(g) ==
    /\ ~killed
    /\ Owned
    /\ ~handlers
    /\ main # "new" /\ ~Returned
    /\ call[g] = "idle"
    /\ killed' = TRUE
    /\ UNCHANGED << main, call, acceptor, stopping, stopped, holder, live, handlers,
                    mode >>

-----------------------------------------------------------------------------
PeerArrives ==
    /\ ~killed
    /\ acceptor = "listening"
    /\ live < MaxLive
    /\ live' = live + 1
    /\ UNCHANGED << main, call, acceptor, stopping, stopped, holder, handlers, killed, mode >>

PeerLeaves ==
    /\ ~killed
    /\ live > 0
    /\ live' = live - 1
    /\ UNCHANGED << main, call, acceptor, stopping, stopped, holder, handlers, killed, mode >>

(* The process is gone, or nobody is left to do anything.                   *)
Over ==
    /\ killed \/ (main = "left" /\ live = 0)
    /\ UNCHANGED vars

Stopping ==
    \/ \E t \in Host : StopCalled(t) \/ StopCancelled(t)
    \/ \E t \in Caller :
          LockAcquired(t) \/ StaleWakes(t) \/ DrainEnds(t) \/ StopEnds(t)
    \/ \E g \in Sig : SignalHandled(g) \/ SignalStops(g) \/ SignalUnhandled(g)

Next ==
    \/ MainStarts \/ Listens \/ BindFails \/ MainWakes \/ MainCancelled
    \/ Stopping
    \/ PeerArrives \/ PeerLeaves
    \/ Over

(* A scheduled task runs, drain() ends (Sessions: StopTerminates), a peer   *)
(* that was disconnected goes.  Peers left alone may stay for ever.         *)
Fairness ==
    /\ WF_vars(Listens)
    /\ WF_vars(MainWakes)
    /\ \A t \in Caller : /\ SF_vars(LockAcquired(t))
                         /\ WF_vars(StaleWakes(t))
                         /\ WF_vars(DrainEnds(t))
                         /\ WF_vars(StopEnds(t))
                         /\ WF_vars(call[t] = "closing" /\ PeerLeaves)
    /\ \A g \in Sig : WF_vars(SignalStops(g))

Spec == Init /\ [][Next]_vars /\ Fairness

-----------------------------------------------------------------------------
(* One stop() at a time does the work, whoever is cancelled inside it and   *)
(* however often the server is started again: the lock is held by exactly   *)
(* the caller that drains or closes.                                        *)
StopIsSerial == \A t \in Caller : call[t] \in Working <=> holder = t

TypeOK ==
    /\ main \in {"new", "starting", "serving", "left"}
    /\ call \in [Caller -> Calls]
    /\ acceptor \in {"none", "listening", "closed"}
    /\ stopping \in BOOLEAN
    /\ stopped \in BOOLEAN
    /\ holder \in Caller \union {NoOne}
    /\ live \in 0 .. MaxLive
    /\ handlers \in BOOLEAN
    /\ killed \in BOOLEAN
    /\ mode \in Modes
    /\ StopIsSerial

(* Nobody cancels the task that drains, and the server is started once.     *)
Uninterrupted == ~Cancellable /\ ~Restarts

(* Whoever comes out of a stop() that found the server up.                  *)
ComesOut(t) == call'[t] \in {"returned", "raised"} /\ call[t] # call'[t]

StopCompletes == \A t \in Caller : ComesOut(t) => live' = 0 /\ acceptor' = "none"

(* The stop() that did the work was cancelled in it: nobody drains, nobody  *)
(* waits for the connections, and _stopped keeps everybody else from it.    *)
Abandoned == stopped /\ acceptor = "closed" /\ holder = NoOne

WorkCancelled == \E t \in Host : call[t] \in Working /\ call'[t] = "cancelled"

(* Who comes out early does so because the work was abandoned, and only the *)
(* cancellation of the task that was at it abandons it, for good.           *)
CancellationIsToBlame ==
    /\ \A t \in Caller : ComesOut(t) => (live' = 0 /\ acceptor' = "none") \/ Abandoned
    /\ Abandoned' => Abandoned \/ WorkCancelled
    /\ Abandoned => Abandoned'

(* A stop() that found the server up leaves nobody connected and no         *)
(* listener, whichever of the concurrent calls it is: a later caller has    *)
(* waited for the first, and none ends in an exception.  Where the host     *)
(* cancels its tasks a stop() may come out early, but only after the one    *)
(* that was draining was itself cancelled: no other cancellation, that of a *)
(* caller queued for the lock for one, costs anybody the drain.             *)
StopIsComplete ==
    [][/\ Uninterrupted => StopCompletes
       /\ ~Restarts => CancellationIsToBlame]_vars

(* run_async() leaves no open listener behind, and run() returns only when  *)
(* the drain that released it is over or was cancelled in the middle, as an *)
(* application may cancel the task it called stop() in.                     *)
RunDrains ==
    Returned /\ ~killed =>
        /\ Uninterrupted =>
              acceptor # "listening" /\ (Owned => live = 0 /\ acceptor = "none")
        /\ Owned => (live = 0 /\ acceptor = "none") \/ Abandoned

(* Every stop() ends, the ones queued behind another included, cancelled    *)
(* and restarted as they may be, and with peers that would stay for ever.   *)
StopReturns ==
    \A t \in Caller :
        call[t] \in {"locking"} \union Working ~> call[t] \in Settled \/ killed

(* The end of the server has been asked for.                                *)
Ending ==
    \/ stopped
    \/ acceptor # "none" /\ \E g \in Sig : call[g] = "scheduled"

(* Once stop() has begun, or a signal found the server listening, run() and *)
(* run_async() return.                                                      *)
StopReleasesMain == Ending /\ ~Restarts ~> Returned \/ killed

-----------------------------------------------------------------------------
(* What the documentation says of the program and the code does not do.     *)

(* docs/source/guide/shutdown.rst:69: "A second signal does not restart the *)
(* drain - it logs and is ignored".                                         *)
SecondSignalIgnored == ~killed

(* server.py:1105, run(): "On SIGINT/SIGTERM the server stops accepting     *)
(* [...] and then exits".                                                   *)
SignalEndsRun == \A g \in Sig : call[g] = "scheduled" ~> (Returned \/ killed)

(* docs/source/guide/shutdown.rst:115: "When embedded, cancellation is the  *)
(* idiomatic way to shut the server down, and run_async supports it         *)
(* directly".                                                               *)
CancelShutsDown == main = "left" => acceptor # "listening"

(* server.py:1012, stop(): "a second caller awaits the first rather than    *)
(* racing it".                                                              *)
StopAlwaysCompletes == [][StopCompletes]_vars

(* server.py:1011, stop(): "Idempotent and safe to call concurrently".      *)
StopNeverRaises == \A t \in Caller : call[t] # "raised"
=============================================================================
