-------------------------- MODULE HostKeysProofs --------------------------
(***************************************************************************)
(* One identity, for any number of processes, keys, crashes and failed     *)
(* writes.                                                                 *)
(***************************************************************************)
EXTENDS HostKeys, TLAPS

(* Between its creation and its write the file belongs to one process, and  *)
(* nobody has served anything yet.                                          *)
OneWriter ==
    \A p \in Proc : pc[p] = "write" =>
        /\ file = Truncated
        /\ served = {}
        /\ \A q \in Proc : pc[q] = "write" => q = p

(* What was served is on disk, or no key is, after a short write.           *)
ServedOrShort ==
    \A k \in served : file = k \/ ("short_write" \in Faults /\ file = Truncated)

(* The invariant that is inductive.                                         *)
IInv == TypeOK /\ OneIdentity /\ ServedOrShort /\ OneWriter

LEMMA TypeNext == TypeOK /\ [Next]_vars => TypeOK'
<1> SUFFICES ASSUME TypeOK, [Next]_vars PROVE TypeOK'
  OBVIOUS
<1> USE HostKeysAssumption DEF HostKeysAssumption, TypeOK
<1>1. ASSUME NEW p \in Proc, FindsKey(p) PROVE TypeOK'
  BY <1>1 DEF FindsKey
<1>2. ASSUME NEW p \in Proc, Generates(p) PROVE TypeOK'
  BY <1>2 DEF Generates, Fresh
<1>3. ASSUME NEW p \in Proc, Creates(p) PROVE TypeOK'
  BY <1>3 DEF Creates
<1>4. ASSUME NEW p \in Proc, Loses(p) PROVE TypeOK'
  BY <1>4 DEF Loses
<1>5. ASSUME NEW p \in Proc, Writes(p) PROVE TypeOK'
  BY <1>5 DEF Writes
<1>6. ASSUME NEW p \in Proc, WriteFails(p) PROVE TypeOK'
  BY <1>6 DEF WriteFails
<1>7. ASSUME NEW p \in Proc, Loads(p) PROVE TypeOK'
  BY <1>7 DEF Loads
<1>8. ASSUME NEW p \in Proc, LoadFails(p) PROVE TypeOK'
  BY <1>8 DEF LoadFails
<1>9. ASSUME NEW p \in Proc, Restarts(p) PROVE TypeOK'
  BY <1>9 DEF Restarts
<1>10. CASE UNCHANGED vars
  BY <1>10 DEF vars
<1> QED
  BY <1>1, <1>2, <1>3, <1>4, <1>5, <1>6, <1>7, <1>8, <1>9, <1>10 DEF Next

LEMMA IInvInit == Init => IInv
  BY HostKeysAssumption
     DEF Init, IInv, TypeOK, OneIdentity, ServedOrShort, OneWriter, HostKeysAssumption

LEMMA IInvNext == IInv /\ [Next]_vars => IInv'
<1> DEFINE Served == OneIdentity /\ ServedOrShort /\ OneWriter
<1> SUFFICES ASSUME IInv, [Next]_vars PROVE Served'
  BY TypeNext DEF IInv
<1> USE HostKeysAssumption DEF HostKeysAssumption, IInv, TypeOK, OneIdentity, ServedOrShort, OneWriter
<1>1. ASSUME NEW p \in Proc, FindsKey(p) \/ Generates(p) \/ Loses(p)
                             \/ WriteFails(p) \/ LoadFails(p) \/ Restarts(p)
      PROVE  Served'
  <2>1. /\ UNCHANGED << file, served >>
        /\ \A q \in Proc : pc'[q] = "write" => pc[q] = "write"
    BY <1>1 DEF FindsKey, Generates, Loses, WriteFails, LoadFails, Restarts
  <2> QED
    BY <2>1
<1>2. ASSUME NEW p \in Proc, Creates(p) PROVE Served'
  (* There was no file: nobody can have served a key, or be writing one.    *)
  <2>1. served = {} /\ \A q \in Proc : pc[q] # "write"
    BY <1>2 DEF Creates
  <2> QED
    BY <1>2, <2>1 DEF Creates
<1>3. ASSUME NEW p \in Proc, Writes(p) PROVE Served'
  <2>1. served = {} /\ \A q \in Proc : pc[q] = "write" => q = p
    BY <1>3 DEF Writes
  <2> QED
    BY <1>3, <2>1 DEF Writes
<1>4. ASSUME NEW p \in Proc, Loads(p) PROVE Served'
  BY <1>4 DEF Loads
<1>5. CASE UNCHANGED vars
  BY <1>5 DEF vars
<1> QED
  BY <1>1, <1>2, <1>3, <1>4, <1>5 DEF Next

(* Every variable keeps to the values ensure_host_key() gives it.           *)
THEOREM TypeCorrect == Spec => []TypeOK
<1>1. IInv => TypeOK
  BY DEF IInv
<1> QED
  BY <1>1, IInvInit, IInvNext, PTL DEF Spec

(* What any process ever served is the key on disk, unless os.write() wrote *)
(* less than it was given.                                                  *)
THEOREM ServedStaysOnDisk ==
  ASSUME "short_write" \notin Faults
  PROVE  Spec => []ServedIsOnDisk
<1>1. IInv => ServedIsOnDisk
  BY DEF IInv, ServedOrShort, ServedIsOnDisk
<1> QED
  BY <1>1, IInvInit, IInvNext, PTL DEF Spec

(* The exclusive create gives the server one identity, whatever crashes and *)
(* however much is written.                                                 *)
THEOREM IdentityIsOne == Spec => []OneIdentity
<1>1. IInv => OneIdentity
  BY DEF IInv
<1> QED
  BY <1>1, IInvInit, IInvNext, PTL DEF Spec

(* Once served, the identity is never written over.                         *)
THEOREM IdentityIsStable == Spec => [][served # {} => UNCHANGED file]_vars
<1>1. IInv /\ [Next]_vars => [served # {} => UNCHANGED file]_vars
  <2> SUFFICES ASSUME IInv, Next, served # {} PROVE file' = file
    BY DEF vars
  <2>2. file # Absent /\ \A p \in Proc : pc[p] # "write"
    BY HostKeysAssumption DEF IInv, TypeOK, ServedOrShort, OneWriter, HostKeysAssumption
  <2> QED
    BY <2>2, HostKeysAssumption
       DEF Next, FindsKey, Generates, Creates, Loses, Writes, WriteFails, Loads,
           LoadFails, Restarts, HostKeysAssumption
<1> QED
  BY <1>1, IInvInit, IInvNext, PTL DEF Spec

-----------------------------------------------------------------------------
(* How much of "the first run creates a key, every later run reuses it"     *)
(* (keys.py:219) the code keeps.                                            *)

(* A process gives up in this step.                                         *)
GivesUp(p) == pc'[p] = "failed" /\ pc[p] # "failed"

(* Once a process has served the key, none fails any more, however often    *)
(* processes crash and start again: the file holds the key for good, if it  *)
(* was wholly written.                                                      *)
THEOREM ServedIsReused ==
  ASSUME "short_write" \notin Faults
  PROVE  Spec => [][served # {} => \A p \in Proc : ~GivesUp(p)]_vars
<1>1. IInv /\ [Next]_vars => [served # {} => \A p \in Proc : ~GivesUp(p)]_vars
  <2> SUFFICES ASSUME IInv, Next, served # {}, NEW p \in Proc, GivesUp(p) PROVE FALSE
    BY DEF vars
  <2>1. file # Truncated
    BY HostKeysAssumption DEF IInv, TypeOK, ServedOrShort, HostKeysAssumption
  <2>2. pc[p] # "write"
    BY <2>1 DEF IInv, OneWriter
  <2> QED
    BY <2>1, <2>2
       DEF Next, GivesUp, FindsKey, Generates, Creates, Loses, Writes, WriteFails, Loads,
           LoadFails, Restarts, IInv, TypeOK
<1> QED
  BY <1>1, IInvInit, IInvNext, PTL DEF Spec

(* Where nothing crashes and the disk is not full, a file without a key has *)
(* its writer at work.                                                      *)
HalfWrittenHasWriter ==
    Faults = {} /\ file = Truncated => \E p \in Proc : pc[p] = "write"

LEMMA WriterNext == IInv /\ HalfWrittenHasWriter /\ [Next]_vars => HalfWrittenHasWriter'
<1> SUFFICES ASSUME IInv, HalfWrittenHasWriter, [Next]_vars, Faults = {}, file' = Truncated
             PROVE  \E q \in Proc : pc'[q] = "write"
  BY DEF HalfWrittenHasWriter
<1> USE HostKeysAssumption DEF HostKeysAssumption, IInv, TypeOK
<1>1. ASSUME NEW p \in Proc, Creates(p) PROVE \E q \in Proc : pc'[q] = "write"
  BY <1>1 DEF Creates
<1>2. ASSUME NEW p \in Proc, Writes(p) PROVE FALSE
  BY <1>2 DEF Writes
<1>3. ASSUME NEW p \in Proc, FindsKey(p) \/ Generates(p) \/ Loses(p) \/ Loads(p)
                             \/ LoadFails(p) \/ Restarts(p)
      PROVE  \E q \in Proc : pc'[q] = "write"
  <2>1. file = Truncated
    BY <1>3 DEF FindsKey, Generates, Loses, Loads, LoadFails, Restarts
  <2>2. PICK q \in Proc : pc[q] = "write"
    BY <2>1 DEF HalfWrittenHasWriter
  <2>3. pc'[q] = "write"
    BY <1>3, <2>2 DEF FindsKey, Generates, Loses, Loads, LoadFails, Restarts
  <2> QED
    BY <2>3
<1>4. ASSUME NEW p \in Proc, WriteFails(p) PROVE FALSE
  BY <1>4 DEF WriteFails
<1>5. CASE UNCHANGED vars
  BY <1>5 DEF vars, HalfWrittenHasWriter
<1> QED
  BY <1>1, <1>2, <1>3, <1>4, <1>5 DEF Next

(* Of processes that start together on a healthy disk one fails only if it  *)
(* reads the file between the winner's creation and write of it: the race   *)
(* that refutes KeyIsEnsured is the only one there is.                      *)
THEOREM FailureIsTheRace ==
  ASSUME Faults = {}
  PROVE  Spec => [][\A p \in Proc : GivesUp(p) => \E q \in Proc : q # p /\ pc[q] = "write"]_vars
<1> DEFINE Race == \A p \in Proc : GivesUp(p) => \E q \in Proc : q # p /\ pc[q] = "write"
<1>1. Init => HalfWrittenHasWriter
  BY HostKeysAssumption DEF Init, HalfWrittenHasWriter, HostKeysAssumption
<1>2. IInv /\ HalfWrittenHasWriter /\ [Next]_vars => [Race]_vars
  <2> SUFFICES ASSUME IInv, HalfWrittenHasWriter, Next, NEW p \in Proc, GivesUp(p)
               PROVE  \E q \in Proc : q # p /\ pc[q] = "write"
    OBVIOUS
  <2>1. LoadFails(p)
    BY DEF Next, GivesUp, FindsKey, Generates, Creates, Loses, Writes, WriteFails, Loads,
       LoadFails, Restarts, IInv, TypeOK
  <2>2. file = Truncated /\ pc[p] = "load"
    BY <2>1 DEF LoadFails
  <2> QED
    BY <2>2 DEF HalfWrittenHasWriter
<1>3. Spec => [][Race]_vars
  <2> HIDE DEF Race
  <2> QED
    BY <1>1, <1>2, IInvInit, IInvNext, WriterNext, PTL DEF Spec
<1> QED
  BY <1>3
=============================================================================
