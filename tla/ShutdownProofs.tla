-------------------------- MODULE ShutdownProofs --------------------------
(***************************************************************************)
(* What stop() and run() promise, for any number of callers and peers.     *)
(***************************************************************************)
EXTENDS Shutdown, TLAPS

(* Whoever is inside stop() has closed the listener; there is none yet      *)
(* while start() is at work, nor anybody queued for its lock; and the task  *)
(* of run() calls stop() only once it has left run_async().                 *)
AcceptorInv ==
    /\ main \in {"new", "starting"} =>
          acceptor = "none" /\ \A t \in Caller : call[t] # "locking"
    /\ holder # NoOne => acceptor = "closed"
    /\ ~Owned \/ main # "left" => call[Main] = "idle"

TypeInv == TypeOK /\ AcceptorInv

LEMMA TypeInit == Init => TypeInv
<1> SUFFICES ASSUME Init PROVE TypeInv
  OBVIOUS
<1>1. Main \in Caller /\ \A t \in Caller : holder # t
  BY ShutdownAssumption DEF Init, Caller, ShutdownAssumption
<1>2. call \in [Caller -> Calls]
  BY DEF Init, Calls
<1>3. \A t \in Caller : call[t] = "idle"
  BY DEF Init
<1>4. live \in 0 .. MaxLive
  BY ShutdownAssumption DEF Init, ShutdownAssumption
<1>5. /\ stopping \in BOOLEAN /\ stopped \in BOOLEAN
      /\ handlers \in BOOLEAN /\ killed \in BOOLEAN
  BY DEF Init
<1>6. \A t \in Caller : call[t] \in Working <=> holder = t
  BY <1>1, <1>3 DEF Working
<1>7. TypeOK
  BY <1>2, <1>4, <1>5, <1>6 DEF Init, TypeOK, StopIsSerial
<1>8. AcceptorInv
  BY <1>1, <1>3 DEF Init, AcceptorInv
<1> QED
  BY <1>7, <1>8 DEF TypeInv

(* stop() up to its first await, and with the lock.                         *)
LEMMA StopBodyType ==
    ASSUME TypeInv, NEW t \in Caller, call[t] \notin Working, holder = NoOne,
           main \in {"serving", "left"},
           StopBody(t), UNCHANGED << live, killed, mode >>
    PROVE  /\ call' \in [Caller -> Calls]
           /\ acceptor' \in {"none", "listening", "closed"}
           /\ stopping' \in BOOLEAN
           /\ stopped' \in BOOLEAN
           /\ holder' \in Caller \union {NoOne}
           /\ \A u \in Caller : call'[u] \in Working <=> holder' = u
           /\ holder' # NoOne => acceptor' = "closed"
<1> USE ShutdownAssumption DEF ShutdownAssumption, TypeInv, TypeOK, StopIsSerial, AcceptorInv,
        Calls, Working, Settled
<1>1. CASE stopped
  BY <1>1 DEF StopBody
<1>2. CASE ~stopped
  BY <1>2 DEF StopBody
<1> QED
  BY <1>1, <1>2

LEMMA EnterStopType ==
    ASSUME TypeInv, NEW t \in Caller, call[t] \notin Working,
           main \in {"serving", "left"} \/ acceptor = "none",
           EnterStop(t), UNCHANGED << live, killed, mode >>
    PROVE  /\ call' \in [Caller -> Calls]
           /\ acceptor' \in {"none", "listening", "closed"}
           /\ stopping' \in BOOLEAN
           /\ stopped' \in BOOLEAN
           /\ holder' \in Caller \union {NoOne}
           /\ \A u \in Caller : call'[u] \in Working <=> holder' = u
           /\ holder' # NoOne => acceptor' = "closed"
<1>1. CASE acceptor = "none" \/ ~LockFree
  BY <1>1, ShutdownAssumption
     DEF EnterStop, ShutdownAssumption, TypeInv, TypeOK, StopIsSerial, AcceptorInv, Calls,
         Working, Settled
<1>2. CASE ~(acceptor = "none" \/ ~LockFree)
  <2>1. StopBody(t) /\ holder = NoOne /\ main \in {"serving", "left"}
    BY <1>2 DEF EnterStop, LockFree
  <2> QED
    BY <2>1, StopBodyType
<1> QED
  BY <1>1, <1>2

(* A server is run in one way all its life.                                 *)
LEMMA ModeKept ==
    ASSUME [Next]_vars
    PROVE  /\ mode' = mode
           /\ Owned' = Owned /\ Cancellable' = Cancellable /\ Restarts' = Restarts
<1>1. mode' = mode
  BY DEF Next, Stopping, Over, vars, MainStarts, Listens, BindFails, MainWakes,
     MainCancelled, StopCalled, StopCancelled, LockAcquired, StaleWakes, DrainEnds,
     StopEnds, SignalHandled, SignalStops, SignalUnhandled, PeerArrives, PeerLeaves
<1> QED
  BY <1>1 DEF Owned, Cancellable, Restarts

(* run() starts a server once.                                              *)
LEMMA ModeTypes ==
    ASSUME TypeInv
    PROVE  Owned \in BOOLEAN /\ (Owned => ~Restarts)
<1>1. mode \in [owned: BOOLEAN, cancellable: BOOLEAN, restarts: BOOLEAN] /\ mode \in Modes
  BY ShutdownAssumption DEF ShutdownAssumption, TypeInv, TypeOK
<1> QED
  BY <1>1, ShutdownAssumption DEF ShutdownAssumption, Owned, Restarts

LEMMA TypeNext == TypeInv /\ [Next]_vars => TypeInv'
<1> SUFFICES ASSUME TypeInv, [Next]_vars PROVE TypeInv'
  OBVIOUS
<1>m. /\ mode' = mode
      /\ Owned' = Owned /\ Cancellable' = Cancellable /\ Restarts' = Restarts
  BY ModeKept
<1> USE ShutdownAssumption, <1>m DEF ShutdownAssumption
<1>0. /\ main \in {"serving", "left"} \/ acceptor = "none"
      /\ Main \in Caller
  BY DEF TypeInv, TypeOK, StopIsSerial, AcceptorInv, Caller
<1>1. CASE MainStarts
  <2>1. handlers' \in BOOLEAN
    BY <1>1, ModeTypes DEF MainStarts
  <2>2. holder = NoOne /\ \A t \in Caller : call[t] \notin Working
    BY <1>1 DEF MainStarts, TypeInv, TypeOK, StopIsSerial, AcceptorInv
  <2>3. /\ call' \in [Caller -> Calls]
        /\ \A t \in Caller : call'[t] \notin Working /\ call'[t] # "locking"
        /\ call[Main] = "idle" => call'[Main] = "idle"
    BY <1>0, <1>1, <2>2 DEF MainStarts, TypeInv, TypeOK, StopIsSerial, Calls, Working
  <2>4. call'[Main] = "idle"
    BY <1>1, <2>3, ModeTypes DEF MainStarts, TypeInv, AcceptorInv
  <2> QED
    BY <1>1, <2>1, <2>2, <2>3, <2>4 DEF MainStarts, TypeInv, TypeOK, StopIsSerial, AcceptorInv
<1>2. CASE Listens
  BY <1>2 DEF Listens, TypeInv, TypeOK, StopIsSerial, AcceptorInv
<1>3. CASE BindFails
  <2>1. holder = NoOne /\ call[Main] \notin Working
    BY <1>0, <1>3 DEF BindFails, TypeInv, TypeOK, StopIsSerial, AcceptorInv
  <2>2. /\ call' \in [Caller -> Calls]
        /\ \A u \in Caller : call'[u] \in Working <=> call[u] \in Working
    BY <1>3, <2>1, <1>0 DEF BindFails, TypeInv, TypeOK, StopIsSerial, Calls, Working, Settled
  <2> QED
    BY <1>3, <2>2 DEF BindFails, TypeInv, TypeOK, StopIsSerial, AcceptorInv
<1>4. ASSUME NEW t \in Host \union Sig, StopCalled(t) \/ SignalStops(t)
      PROVE  TypeInv'
  <2>1. /\ EnterStop(t) /\ call[t] \notin Working /\ t \in Caller
        /\ UNCHANGED << main, live, handlers, killed, mode >>
    BY <1>4 DEF StopCalled, SignalStops, Working, Settled, Caller
  <2>2. t # Main
    OBVIOUS
  <2>3. /\ call'[Main] = call[Main]
        /\ main \in {"new", "starting"} =>
              acceptor' = "none" /\ \A u \in Caller : call'[u] # "locking"
    BY <1>0, <2>1, <2>2 DEF EnterStop, StopBody, TypeInv, TypeOK, StopIsSerial, AcceptorInv
  <2> QED
    BY <1>0, <2>1, <2>3, EnterStopType DEF TypeInv, TypeOK, StopIsSerial, AcceptorInv
<1>5. ASSUME NEW t \in Caller, LockAcquired(t) PROVE TypeInv'
  <2>1. /\ StopBody(t) /\ call[t] = "locking" /\ holder = NoOne
        /\ UNCHANGED << main, live, handlers, killed, mode >>
    BY <1>5 DEF LockAcquired
  <2>2. main \in {"serving", "left"} /\ call[t] \notin Working
    BY <2>1 DEF TypeInv, TypeOK, StopIsSerial, AcceptorInv, Working
  <2>3. call[Main] = "idle" => t # Main /\ call'[Main] = "idle"
    BY <1>0, <2>1 DEF StopBody, TypeInv, TypeOK, StopIsSerial
  <2> QED
    BY <2>1, <2>2, <2>3, StopBodyType DEF TypeInv, TypeOK, StopIsSerial, AcceptorInv
<1>6. ASSUME NEW t \in Caller, StaleWakes(t) PROVE TypeInv'
  BY <1>6 DEF StaleWakes, TypeInv, TypeOK, StopIsSerial, AcceptorInv, Calls, Working, Settled
<1>7. ASSUME NEW t \in Caller, DrainEnds(t) PROVE TypeInv'
  BY <1>7 DEF DrainEnds, TypeInv, TypeOK, StopIsSerial, AcceptorInv, Calls, Working, Settled
<1>8. ASSUME NEW t \in Caller, StopEnds(t) PROVE TypeInv'
  BY <1>8 DEF StopEnds, TypeInv, TypeOK, StopIsSerial, AcceptorInv, Calls, Working, Settled
<1>9. ASSUME NEW t \in Caller, StopCancelled(t), t # Main PROVE TypeInv'
  BY <1>9 DEF StopCancelled, TypeInv, TypeOK, StopIsSerial, AcceptorInv, Calls, Working, Settled
<1>10. CASE MainWakes
  <2>1. CASE Owned
    <3>1. /\ EnterStop(Main) /\ main' = "left" /\ handlers' = FALSE
          /\ UNCHANGED << live, killed, mode >>
      BY <1>10, <2>1 DEF MainWakes
    <3>2. call[Main] \notin Working
      BY <1>10, <2>1 DEF MainWakes, TypeInv, AcceptorInv, Working
    <3> QED
      BY <1>0, <2>1, <3>1, <3>2, EnterStopType DEF TypeInv, TypeOK, StopIsSerial, AcceptorInv
  <2>2. CASE ~Owned
    BY <1>10, <2>2 DEF MainWakes, TypeInv, TypeOK, StopIsSerial, AcceptorInv
  <2> QED
    BY <2>1, <2>2
<1>11. CASE MainCancelled
  BY <1>11 DEF MainCancelled, TypeInv, TypeOK, StopIsSerial, AcceptorInv
<1>12. ASSUME NEW g \in Sig, SignalHandled(g) \/ SignalUnhandled(g) PROVE TypeInv'
  BY <1>12 DEF Caller, SignalHandled, SignalUnhandled, TypeInv, TypeOK, StopIsSerial, AcceptorInv,
     Calls, Working, Settled
<1>13. CASE PeerArrives \/ PeerLeaves
  BY <1>13 DEF PeerArrives, PeerLeaves, TypeInv, TypeOK, StopIsSerial, AcceptorInv
<1>14. CASE UNCHANGED vars
  BY <1>14 DEF vars, TypeInv, TypeOK, StopIsSerial, AcceptorInv
<1> QED
  BY <1>1, <1>2, <1>3, <1>4, <1>5, <1>6, <1>7, <1>8, <1>9, <1>10, <1>11, <1>12,
     <1>13, <1>14 DEF Next, Stopping, Over, Caller

(* Locks, flags and callers keep to their values.                           *)
THEOREM TypeCorrect == Spec => []TypeOK
<1>1. TypeInv => TypeOK
  BY DEF TypeInv
<1> QED
  BY <1>1, TypeInit, TypeNext, PTL DEF Spec

(* The lock serialises stop() for any number of callers, cancelled and      *)
(* restarted as they may be.                                                *)
THEOREM StopsAreSerial == Spec => []StopIsSerial
<1>1. TypeOK => StopIsSerial
  BY DEF TypeOK
<1> QED
  BY <1>1, TypeCorrect, PTL

-----------------------------------------------------------------------------
(* Without cancellation and restarts _stopped means that the work of stop() *)
(* is being done, by the holder of the lock, or is over.                    *)
DrainInv ==
    /\ acceptor = "none" => live = 0
    /\ stopped => acceptor # "listening"
    /\ stopping => stopped
    /\ stopped /\ holder = NoOne => acceptor = "none"
    /\ holder # NoOne \/ (\E t \in Caller : call[t] = "locking") => stopped
    /\ main \in {"new", "starting"} => ~stopped
    /\ main = "left" => acceptor # "listening"
    /\ \A t \in Caller : call[t] # "stale"
    /\ Owned /\ main = "left" /\ call[Main] \in Settled => acceptor = "none"

Inv == TypeInv /\ (Uninterrupted => DrainInv)

LEMMA DrainInit == Init => DrainInv
  BY ShutdownAssumption DEF Init, DrainInv, ShutdownAssumption, Settled

(* A caller that gets the lock and returns at once finds the work done.     *)
LEMMA StopBodyDrain ==
    ASSUME TypeInv, DrainInv, NEW t \in Caller, holder = NoOne, StopBody(t), UNCHANGED live
    PROVE  /\ acceptor' = "none" => live' = 0
           /\ stopped' /\ acceptor' # "listening"
           /\ acceptor' \in {acceptor, "closed"}
           /\ holder' = NoOne => acceptor' = "none"
           /\ call' = [call EXCEPT ![t] = call'[t]]
           /\ call'[t] = "returned" => acceptor' = "none"
           /\ call'[t] \in {"returned"} \union Working
<1> USE ShutdownAssumption DEF ShutdownAssumption, TypeInv, TypeOK, StopIsSerial, DrainInv,
        Working
<1>1. CASE stopped
  BY <1>1 DEF StopBody
<1>2. CASE ~stopped
  BY <1>2 DEF StopBody
<1> QED
  BY <1>1, <1>2

LEMMA EnterStopDrain ==
    ASSUME TypeInv, DrainInv, NEW t \in Caller, EnterStop(t), UNCHANGED live
    PROVE  /\ acceptor' = "none" => live' = 0
           /\ stopped' => acceptor' # "listening"
           /\ acceptor' \in {acceptor, "closed"}
           /\ stopping' => stopped'
           /\ stopped' /\ holder' = NoOne => acceptor' = "none"
           /\ holder' # NoOne \/ call'[t] = "locking" => stopped'
           /\ stopped => stopped'
           /\ acceptor = "none" => UNCHANGED << acceptor, stopped >>
           /\ call' = [call EXCEPT ![t] = call'[t]]
           /\ call'[t] \in Settled => acceptor' = "none"
           /\ call'[t] \in {"noop", "locking", "returned"} \union Working
<1>1. CASE acceptor = "none" \/ ~LockFree
  <2>1. /\ call' = [call EXCEPT ![t] =
                          IF acceptor = "none" THEN "noop" ELSE "locking"]
        /\ UNCHANGED << acceptor, stopping, stopped, holder >>
    BY <1>1 DEF EnterStop
  <2>2. acceptor # "none" => stopped
    BY <1>1 DEF LockFree, DrainInv
  <2> QED
    BY <2>1, <2>2 DEF TypeInv, TypeOK, StopIsSerial, DrainInv, Settled
<1>2. CASE ~(acceptor = "none" \/ ~LockFree)
  <2>1. StopBody(t) /\ holder = NoOne /\ acceptor # "none"
    BY <1>2 DEF EnterStop, LockFree
  <2> QED
    BY <2>1, StopBodyDrain DEF Settled, Working
<1> QED
  BY <1>1, <1>2

LEMMA DrainNext ==
    ASSUME Uninterrupted, TypeInv, DrainInv, [Next]_vars PROVE DrainInv'
<1>m. Owned' = Owned /\ ~Cancellable /\ ~Restarts
  BY ModeKept DEF Uninterrupted
<1> USE ShutdownAssumption, <1>m DEF ShutdownAssumption
<1>0. Main \in Caller
  BY DEF Caller
<1>1. CASE MainStarts
  BY <1>1 DEF MainStarts, TypeInv, TypeOK, StopIsSerial, AcceptorInv, DrainInv
<1>2. CASE Listens
  BY <1>2 DEF Listens, DrainInv
<1>3. CASE BindFails
  BY <1>3 DEF BindFails, TypeInv, TypeOK, StopIsSerial, AcceptorInv, DrainInv
<1>4. ASSUME NEW t \in Host \union Sig, StopCalled(t) \/ SignalStops(t)
      PROVE  DrainInv'
  <2>1. EnterStop(t) /\ t \in Caller /\ t # Main /\ UNCHANGED << main, live >>
    BY <1>4 DEF StopCalled, SignalStops, Caller
  <2>2. main \in {"new", "starting"} => ~stopped'
    BY <2>1, EnterStopDrain DEF TypeInv, AcceptorInv, DrainInv
  <2>3. call'[Main] = call[Main] /\ \A u \in Caller : call'[u] # "stale"
    BY <1>0, <2>1, EnterStopDrain DEF TypeInv, TypeOK, StopIsSerial, DrainInv, Working
  <2>4. acceptor = "none" => acceptor' = "none"
    BY <2>1, EnterStopDrain
  <2>5. holder' # NoOne \/ (\E u \in Caller : call'[u] = "locking") => stopped'
    BY <2>1, EnterStopDrain DEF TypeInv, TypeOK, StopIsSerial, DrainInv
  <2> QED
    BY <2>1, <2>2, <2>3, <2>4, <2>5, EnterStopDrain DEF DrainInv
<1>5. ASSUME NEW t \in Caller, LockAcquired(t) PROVE DrainInv'
  <2>1. /\ StopBody(t) /\ holder = NoOne /\ call[t] = "locking"
        /\ UNCHANGED << main, live >>
    BY <1>5 DEF LockAcquired
  <2>2. main \notin {"new", "starting"}
    BY <2>1 DEF TypeInv, AcceptorInv
  <2>3. \A u \in Caller : call'[u] # "stale"
    BY <2>1, StopBodyDrain DEF TypeInv, TypeOK, StopIsSerial, DrainInv, Working
  <2>4. stopped /\ acceptor = "none" /\ UNCHANGED << acceptor, stopped, holder >>
    BY <2>1 DEF StopBody, DrainInv
  <2> QED
    BY <2>1, <2>2, <2>3, <2>4 DEF DrainInv
<1>6. ASSUME NEW t \in Caller, StaleWakes(t) PROVE DrainInv'
  BY <1>6 DEF StaleWakes, DrainInv
<1>7. ASSUME NEW t \in Caller, DrainEnds(t) PROVE DrainInv'
  BY <1>7 DEF DrainEnds, TypeInv, TypeOK, StopIsSerial, DrainInv, Settled
<1>8. ASSUME NEW t \in Caller, StopEnds(t) PROVE DrainInv'
  BY <1>8 DEF StopEnds, TypeInv, TypeOK, StopIsSerial, DrainInv
<1>9. ASSUME NEW t \in Caller, StopCancelled(t) PROVE DrainInv'
  BY <1>9 DEF StopCancelled
<1>10. CASE MainWakes
  <2>1. CASE Owned
    <3>1. EnterStop(Main) /\ stopping /\ main' = "left" /\ UNCHANGED live
      BY <1>10, <2>1 DEF MainWakes
    <3>2. \A u \in Caller : call'[u] # "stale"
      BY <1>0, <3>1, EnterStopDrain DEF TypeInv, TypeOK, StopIsSerial, DrainInv, Working
    <3>3. holder' # NoOne \/ (\E u \in Caller : call'[u] = "locking") => stopped'
      BY <1>0, <3>1, EnterStopDrain DEF TypeInv, TypeOK, StopIsSerial, DrainInv
    <3> QED
      BY <1>0, <3>1, <3>2, <3>3, EnterStopDrain DEF DrainInv
  <2>2. CASE ~Owned
    BY <1>10, <2>2 DEF MainWakes, DrainInv
  <2> QED
    BY <2>1, <2>2
<1>11. CASE MainCancelled
  BY <1>11 DEF MainCancelled
<1>12. ASSUME NEW g \in Sig, SignalHandled(g) \/ SignalUnhandled(g) PROVE DrainInv'
  <2>1. g # Main /\ g \in Caller
    BY DEF Caller
  <2> QED
    BY <1>0, <1>12, <2>1
       DEF SignalHandled, SignalUnhandled, TypeInv, TypeOK, StopIsSerial, DrainInv
<1>13. CASE PeerArrives \/ PeerLeaves
  BY <1>13 DEF PeerArrives, PeerLeaves, TypeInv, TypeOK, StopIsSerial, DrainInv
<1>14. CASE UNCHANGED vars
  BY <1>14 DEF vars, DrainInv
<1> QED
  BY <1>1, <1>2, <1>3, <1>4, <1>5, <1>6, <1>7, <1>8, <1>9, <1>10, <1>11, <1>12,
     <1>13, <1>14 DEF Next, Stopping, Over, Caller

LEMMA InvInit == Init => Inv
  BY TypeInit, DrainInit DEF Inv

LEMMA InvNext == Inv /\ [Next]_vars => Inv'
<1> SUFFICES ASSUME Inv, [Next]_vars PROVE Inv'
  OBVIOUS
<1>1. Uninterrupted' = Uninterrupted
  BY ModeKept DEF Uninterrupted
<1> QED
  BY <1>1, TypeNext, DrainNext DEF Inv

LEMMA UninterruptedReturn ==
    ASSUME Inv, Uninterrupted, Returned
    PROVE  acceptor # "listening" /\ (Owned => live = 0 /\ acceptor = "none")
  BY DEF Inv, DrainInv, Returned

(* A stop() that returns, first or queued behind another.                   *)
LEMMA UninterruptedStop ==
    ASSUME Inv, Uninterrupted, [Next]_vars PROVE StopCompletes
<1> SUFFICES ASSUME Uninterrupted, TypeInv, DrainInv, [Next]_vars, NEW t \in Caller,
                    call'[t] \in {"returned", "raised"}, call'[t] # call[t]
             PROVE  live' = 0 /\ acceptor' = "none"
  BY DEF Inv, StopCompletes, ComesOut
<1>0. DrainInv'
  BY DrainNext
<1>1. SUFFICES acceptor' = "none"
  BY <1>0 DEF DrainInv
<1>2. ASSUME NEW u \in Caller, EnterStop(u), UNCHANGED live
      PROVE  acceptor' = "none"
  <2>1. u = t
    BY <1>2, EnterStopDrain DEF TypeInv, TypeOK
  <2> QED
    BY <1>2, <2>1, EnterStopDrain DEF Settled
<1>3. ASSUME NEW u \in Caller, LockAcquired(u) PROVE acceptor' = "none"
  <2>1. StopBody(u) /\ holder = NoOne /\ UNCHANGED live
    BY <1>3 DEF LockAcquired
  <2>2. u = t
    BY <2>1, StopBodyDrain DEF TypeInv, TypeOK
  <2> QED
    BY <2>1, <2>2, StopBodyDrain DEF Working
<1>4. ASSUME NEW u \in Caller, StopEnds(u) PROVE acceptor' = "none"
  BY <1>4 DEF StopEnds
<1>5. CASE MainWakes
  BY <1>2, <1>5 DEF MainWakes, Caller
<1>6. ASSUME NEW u \in Host \union Sig, StopCalled(u) \/ SignalStops(u)
      PROVE  acceptor' = "none"
  BY <1>2, <1>6 DEF StopCalled, SignalStops, Caller
<1>7. ASSUME NEW u \in Caller,
             DrainEnds(u) \/ StaleWakes(u) \/ StopCancelled(u)
               \/ SignalHandled(u) \/ SignalUnhandled(u)
      PROVE  FALSE
  <2>1. ~StaleWakes(u) /\ ~StopCancelled(u)
    BY DEF StaleWakes, StopCancelled, DrainInv, Uninterrupted
  <2> QED
    BY <1>7, <2>1 DEF DrainEnds, SignalHandled, SignalUnhandled, TypeInv, TypeOK
<1>8. CASE MainStarts \/ Listens \/ BindFails \/ MainCancelled \/ PeerArrives
            \/ PeerLeaves \/ UNCHANGED vars
  BY <1>8 DEF MainStarts, Listens, BindFails, MainCancelled, PeerArrives,
     PeerLeaves, vars, TypeInv, TypeOK, StopIsSerial, AcceptorInv
<1> QED
  BY <1>3, <1>4, <1>5, <1>6, <1>7, <1>8 DEF Next, Stopping, Over, Caller

-----------------------------------------------------------------------------
(* What is left of that when tasks are cancelled, as long as the server is  *)
(* started once.                                                            *)
OnceInv ==
    /\ acceptor = "none" => live = 0
    /\ stopped => acceptor # "listening"
    /\ stopping => stopped
    /\ holder # NoOne \/ (\E t \in Caller : call[t] = "locking") => stopped
    /\ main \in {"new", "starting"} => ~stopped
    /\ \A t \in Caller : call[t] \notin {"stale", "raised"}
    /\ Owned /\ main = "left" /\ call[Main] \in Settled => acceptor = "none" \/ Abandoned

(* No call of stop() by one caller disturbs another's, and none undoes what  *)
(* an earlier one did.                                                      *)
Entered(t) ==
    /\ stopped => stopped' /\ UNCHANGED acceptor
    /\ stopped' => acceptor' # "listening"
    /\ stopping' => stopped'
    /\ acceptor' = "none" <=> acceptor = "none"
    /\ acceptor = "none" => UNCHANGED stopped
    /\ holder' # NoOne \/ call'[t] = "locking" => stopped'
    /\ \A u \in Caller \ {t} : call'[u] = call[u]
    /\ call'[t] \in {"noop", "locking", "returned"} \union Working
    /\ call'[t] = "returned" => acceptor = "none" \/ Abandoned
    /\ call'[t] \in Settled => UNCHANGED << acceptor, stopped, holder >>
    /\ Abandoned => Abandoned'
    /\ Abandoned' => Abandoned

LEMMA StopBodyOnce ==
    ASSUME TypeInv, OnceInv, NEW t \in Caller, holder = NoOne, acceptor # "none", StopBody(t)
    PROVE  Entered(t)
<1> USE ShutdownAssumption DEF ShutdownAssumption, TypeInv, TypeOK, StopIsSerial, AcceptorInv,
        OnceInv, Working, Settled, Abandoned, Entered
<1>1. CASE stopped
  BY <1>1 DEF StopBody
<1>2. CASE ~stopped
  BY <1>2 DEF StopBody
<1> QED
  BY <1>1, <1>2

LEMMA EnterStopOnce ==
    ASSUME TypeInv, OnceInv, NEW t \in Caller, EnterStop(t)
    PROVE  Entered(t) /\ (call'[t] = "noop" => acceptor = "none")
<1>1. CASE acceptor = "none" \/ ~LockFree
  <2>1. /\ call' = [call EXCEPT ![t] =
                          IF acceptor = "none" THEN "noop" ELSE "locking"]
        /\ UNCHANGED << acceptor, stopping, stopped, holder >>
    BY <1>1 DEF EnterStop
  <2>2. acceptor # "none" => stopped
    BY <1>1 DEF LockFree, OnceInv
  <2> QED
    BY <2>1, <2>2
       DEF Entered, Abandoned, TypeInv, TypeOK, StopIsSerial, OnceInv, Settled
<1>2. CASE ~(acceptor = "none" \/ ~LockFree)
  <2>1. StopBody(t) /\ holder = NoOne /\ acceptor # "none"
    BY <1>2 DEF EnterStop, LockFree
  <2>2. call'[t] # "noop"
    BY <2>1 DEF StopBody, TypeInv, TypeOK
  <2> QED
    BY <2>1, <2>2, StopBodyOnce
<1> QED
  BY <1>1, <1>2

(* Nobody waits for the lock of a server that is gone.                      *)
LEMMA LockedOnce ==
    ASSUME TypeInv, OnceInv, NEW t \in Caller, LockAcquired(t)
    PROVE  /\ UNCHANGED << main, acceptor, stopped, stopping, holder, live >>
           /\ call' = [call EXCEPT ![t] = "returned"]
           /\ acceptor = "none" \/ Abandoned
  BY DEF LockAcquired, StopBody, OnceInv, Abandoned, TypeInv, TypeOK

LEMMA OnceInit == Init => OnceInv
  BY ShutdownAssumption DEF Init, OnceInv, Abandoned, ShutdownAssumption, Settled

LEMMA OnceNext ==
    ASSUME ~Restarts, TypeInv, OnceInv, [Next]_vars PROVE OnceInv'
<1>m. Owned' = Owned /\ ~Restarts
  BY ModeKept
<1> USE ShutdownAssumption, <1>m DEF ShutdownAssumption
<1>0. Main \in Caller
  BY DEF Caller
<1>1. CASE MainStarts
  BY <1>1 DEF MainStarts, TypeInv, TypeOK, StopIsSerial, AcceptorInv, OnceInv
<1>2. CASE Listens
  BY <1>2 DEF Listens, OnceInv
<1>3. CASE BindFails
  BY <1>3 DEF BindFails, TypeInv, TypeOK, StopIsSerial, AcceptorInv, OnceInv
<1>4. ASSUME NEW t \in Host \union Sig, StopCalled(t) \/ SignalStops(t)
      PROVE  OnceInv'
  <2>1. EnterStop(t) /\ t \in Caller /\ t # Main /\ UNCHANGED << main, live >>
    BY <1>4 DEF StopCalled, SignalStops, Caller
  <2>2. Entered(t)
    BY <2>1, EnterStopOnce
  <2>3. main \in {"new", "starting"} => ~stopped'
    BY <2>1, <2>2 DEF Entered, TypeInv, AcceptorInv, OnceInv
  <2>4. /\ \A u \in Caller : call'[u] \notin {"stale", "raised"}
        /\ holder' # NoOne \/ (\E u \in Caller : call'[u] = "locking") => stopped'
    BY <2>2 DEF Entered, OnceInv, Working
  <2>5. call'[Main] = call[Main]
    BY <1>0, <2>1, <2>2 DEF Entered
  <2> QED
    BY <2>1, <2>2, <2>3, <2>4, <2>5 DEF Entered, OnceInv
<1>5. ASSUME NEW t \in Caller, LockAcquired(t) PROVE OnceInv'
  BY <1>0, <1>5, LockedOnce DEF OnceInv, Abandoned, TypeInv, TypeOK
<1>6. ASSUME NEW t \in Caller, StaleWakes(t) PROVE OnceInv'
  BY <1>6 DEF StaleWakes, OnceInv
<1>7. ASSUME NEW t \in Caller, DrainEnds(t) PROVE OnceInv'
  BY <1>7 DEF DrainEnds, TypeInv, TypeOK, StopIsSerial, OnceInv, Settled, Abandoned
<1>8. ASSUME NEW t \in Caller, StopEnds(t) PROVE OnceInv'
  BY <1>8 DEF StopEnds, TypeInv, TypeOK, StopIsSerial, OnceInv
<1>9. ASSUME NEW t \in Host, StopCancelled(t) PROVE OnceInv'
  <2>1. t # Main /\ t \in Caller
    BY DEF Caller
  <2>2. call' = [call EXCEPT ![t] = "cancelled"] /\ holder' \in {holder, NoOne}
        /\ UNCHANGED << main, acceptor, stopping, stopped, live >>
    BY <1>9 DEF StopCancelled
  <2>3. Abandoned => Abandoned'
    BY <2>2 DEF Abandoned
  <2> QED
    BY <1>0, <2>1, <2>2, <2>3 DEF TypeInv, TypeOK, OnceInv
<1>10. CASE MainWakes
  <2>1. CASE Owned
    <3>1. EnterStop(Main) /\ stopping /\ main' = "left" /\ UNCHANGED live
      BY <1>10, <2>1 DEF MainWakes
    <3>2. Entered(Main) /\ (call'[Main] = "noop" => acceptor = "none")
      BY <1>0, <3>1, EnterStopOnce
    <3>3. /\ \A u \in Caller : call'[u] \notin {"stale", "raised"}
          /\ holder' # NoOne \/ (\E u \in Caller : call'[u] = "locking") => stopped'
      BY <3>2 DEF Entered, OnceInv, Working
    <3>4. call'[Main] \in Settled => acceptor' = "none" \/ Abandoned'
      BY <3>2 DEF Entered, Settled, Working
    <3> QED
      BY <3>1, <3>2, <3>3, <3>4 DEF Entered, OnceInv
  <2>2. CASE ~Owned
    BY <1>10, <2>2 DEF MainWakes, OnceInv
  <2> QED
    BY <2>1, <2>2
<1>11. CASE MainCancelled
  BY <1>11 DEF MainCancelled, OnceInv
<1>12. ASSUME NEW g \in Sig, SignalHandled(g) \/ SignalUnhandled(g) PROVE OnceInv'
  <2>1. g # Main /\ g \in Caller
    BY DEF Caller
  <2> QED
    BY <1>0, <1>12, <2>1
       DEF SignalHandled, SignalUnhandled, TypeInv, TypeOK, StopIsSerial, OnceInv, Abandoned
<1>13. CASE PeerArrives \/ PeerLeaves
  BY <1>13 DEF PeerArrives, PeerLeaves, TypeInv, TypeOK, StopIsSerial, OnceInv, Abandoned
<1>14. CASE UNCHANGED vars
  BY <1>14 DEF vars, OnceInv, Abandoned
<1> QED
  BY <1>1, <1>2, <1>3, <1>4, <1>5, <1>6, <1>7, <1>8, <1>9, <1>10, <1>11, <1>12,
     <1>13, <1>14 DEF Next, Stopping, Over, Caller

OnceStartedInv == TypeInv /\ (~Restarts => OnceInv)

LEMMA OnceStartedInit == Init => OnceStartedInv
  BY TypeInit, OnceInit DEF OnceStartedInv

LEMMA OnceStartedNext == OnceStartedInv /\ [Next]_vars => OnceStartedInv'
<1> SUFFICES ASSUME OnceStartedInv, [Next]_vars PROVE OnceStartedInv'
  OBVIOUS
<1>1. Restarts' = Restarts
  BY ModeKept
<1> QED
  BY <1>1, TypeNext, OnceNext DEF OnceStartedInv

(* Once a stop() has begun nobody new is let in, whoever is cancelled, and   *)
(* no stop() ends in an exception.                                          *)
THEOREM ListenerStaysClosed ==
    Spec => [](~Restarts => StopNeverRaises /\ (stopped => acceptor # "listening"))
<1>1. OnceStartedInv => (~Restarts => StopNeverRaises /\ (stopped => acceptor # "listening"))
  BY DEF OnceStartedInv, OnceInv, StopNeverRaises
<1> QED
  BY <1>1, OnceStartedInit, OnceStartedNext, PTL DEF Spec

(* run() returns when its drain is over, whatever signals arrive and        *)
(* whoever calls stop() besides, or else after a stop() that somebody       *)
(* cancelled at work.                                                       *)
THEOREM RunReturnsDrained == Spec => []RunDrains
<1>1. Inv /\ OnceStartedInv => RunDrains
  <2> SUFFICES ASSUME Inv, OnceStartedInv, Returned PROVE RunDrains
    BY DEF RunDrains
  <2>1. Uninterrupted =>
            acceptor # "listening" /\ (Owned => live = 0 /\ acceptor = "none")
    BY UninterruptedReturn
  <2>2. Owned => (live = 0 /\ acceptor = "none") \/ Abandoned
    BY ModeTypes DEF Inv, OnceStartedInv, OnceInv, Returned
  <2> QED
    BY <2>1, <2>2 DEF RunDrains
<1> QED
  BY <1>1, InvInit, InvNext, OnceStartedInit, OnceStartedNext, PTL DEF Spec

LEMMA BlameStep ==
    ASSUME ~Restarts, TypeInv, OnceInv, [Next]_vars PROVE CancellationIsToBlame
<1> USE ShutdownAssumption DEF ShutdownAssumption
<1> DEFINE Goal == CancellationIsToBlame
<1>0. Main \in Caller
  BY DEF Caller
<1>1. ASSUME NEW u \in Caller, EnterStop(u), UNCHANGED live PROVE Goal
  <2>1. Entered(u)
    BY <1>1, EnterStopOnce
  <2>2. ASSUME NEW t \in Caller, ComesOut(t)
        PROVE  (live' = 0 /\ acceptor' = "none") \/ Abandoned
    <3>1. t = u
      BY <2>1, <2>2 DEF Entered, ComesOut
    <3>2. acceptor = "none" \/ Abandoned
      BY <2>1, <2>2, <3>1 DEF Entered, ComesOut, Working
    <3> QED
      BY <1>1, <2>1, <3>2 DEF Entered, OnceInv
  <2> QED
    BY <2>1, <2>2 DEF Entered, CancellationIsToBlame
<1>2. ASSUME NEW u \in Caller, LockAcquired(u) PROVE Goal
  BY <1>2, LockedOnce DEF CancellationIsToBlame, OnceInv, Abandoned
<1>3. ASSUME NEW u \in Caller, StopEnds(u) PROVE Goal
  <2>1. live' = 0 /\ acceptor' = "none"
    BY <1>3 DEF StopEnds
  <2>2. ~Abandoned
    BY <1>3 DEF StopEnds, Abandoned, TypeInv, TypeOK, StopIsSerial, Working
  <2> QED
    BY <2>1, <2>2 DEF CancellationIsToBlame, Abandoned
<1>4. ASSUME NEW u \in Host, StopCancelled(u) PROVE Goal
  <2>1. /\ u \in Caller /\ call[u] \in {"locking", "stale"} \union Working
        /\ call' = [call EXCEPT ![u] = "cancelled"]
        /\ holder' = IF holder = u THEN NoOne ELSE holder
        /\ UNCHANGED << acceptor, stopped, live >>
    BY <1>4 DEF StopCancelled, Caller
  <2>2. \A t \in Caller : ~ComesOut(t)
    BY <2>1 DEF ComesOut, TypeInv, TypeOK
  <2>3. call'[u] = "cancelled"
    BY <2>1 DEF TypeInv, TypeOK
  <2>4. CASE holder = u
    <3>1. WorkCancelled
      BY <2>3, <2>4, <2>1 DEF WorkCancelled, TypeInv, TypeOK, StopIsSerial
    <3>2. ~Abandoned
      BY <2>1, <2>4 DEF Abandoned, Caller
    <3> QED
      BY <2>2, <3>1, <3>2 DEF CancellationIsToBlame
  <2>5. CASE holder # u
    BY <2>1, <2>2, <2>5 DEF CancellationIsToBlame, Abandoned
  <2> QED
    BY <2>4, <2>5
<1>5. ASSUME NEW u \in Caller, DrainEnds(u) PROVE Goal
  BY <1>5 DEF DrainEnds, CancellationIsToBlame, ComesOut, Abandoned, TypeInv, TypeOK
<1>6. ASSUME NEW u \in Caller, StaleWakes(u) PROVE Goal
  BY <1>6 DEF StaleWakes, OnceInv
<1>7. ASSUME NEW g \in Sig, SignalHandled(g) \/ SignalUnhandled(g) PROVE Goal
  BY <1>7 DEF SignalHandled, SignalUnhandled, CancellationIsToBlame, ComesOut, Abandoned,
     TypeInv, TypeOK
<1>8. CASE MainStarts
  BY <1>8 DEF MainStarts, CancellationIsToBlame, ComesOut, Abandoned, TypeInv, TypeOK,
     AcceptorInv
<1>9. CASE Listens \/ BindFails
  BY <1>9 DEF Listens, BindFails, CancellationIsToBlame, ComesOut, Abandoned, TypeInv, TypeOK,
     AcceptorInv
<1>10. CASE MainWakes
  <2>1. CASE Owned
    BY <1>0, <1>1, <1>10, <2>1 DEF MainWakes
  <2>2. CASE ~Owned
    BY <1>10, <2>2 DEF MainWakes, CancellationIsToBlame, ComesOut, Abandoned
  <2> QED
    BY <2>1, <2>2
<1>11. CASE MainCancelled \/ PeerArrives \/ PeerLeaves \/ UNCHANGED vars
  BY <1>11 DEF MainCancelled, PeerArrives, PeerLeaves, vars, CancellationIsToBlame, ComesOut,
     Abandoned
<1>12. ASSUME NEW u \in Host \union Sig, StopCalled(u) \/ SignalStops(u) PROVE Goal
  BY <1>1, <1>12 DEF StopCalled, SignalStops, Caller
<1> QED
  BY <1>2, <1>3, <1>4, <1>5, <1>6, <1>7, <1>8, <1>9, <1>10, <1>11, <1>12
     DEF Next, Stopping, Over, Caller

(* Every stop() that comes out has waited for the whole drain; one that did *)
(* not can blame the cancellation of the caller that was at work, and       *)
(* nothing else.                                                            *)
THEOREM StopsAreComplete == Spec => StopIsComplete
<1>1. Inv /\ OnceStartedInv /\ [Next]_vars =>
          [/\ Uninterrupted => StopCompletes
           /\ ~Restarts => CancellationIsToBlame]_vars
  BY UninterruptedStop, BlameStep DEF OnceStartedInv
<1> QED
  BY <1>1, InvInit, InvNext, OnceStartedInit, OnceStartedNext, PTL DEF Spec, StopIsComplete
=============================================================================
