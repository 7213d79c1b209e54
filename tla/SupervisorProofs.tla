-------------------------- MODULE SupervisorProofs --------------------------
(***************************************************************************)
(* Proof that one unit of the supervisor never runs two media servers and  *)
(* that the bus never calls one that an earlier start has left behind.     *)
(***************************************************************************)
EXTENDS Supervisor, FiniteSetTheorems, TLAPS

\* Where run_unit may be.
Pcs == {"top", "idle", "backoff", "launch", "hello", "declare", "run", "term", "unset", "gone"}

\* A child is the one of the last start, and lives only where run_unit holds its
\* handle; the bus has its address only from Hello until the handle is given up.
UnitInv ==
    /\ st \in UnitStates /\ pc \in Pcs
    /\ boot \in Nat /\ local \in {0, boot}
    /\ children \subseteq {boot} \ {0}
    /\ children # {} => pc \in {"hello", "declare", "run", "term"}
    /\ local # 0 => pc \in {"declare", "run", "term", "unset"}
    /\ pc \in {"hello", "declare", "run", "term"} => boot # 0

\* Every await of run_unit, every command and the death of the child keep it.
LEMMA UnitStep == UnitInv /\ [Next]_vars => UnitInv'
<1> SUFFICES ASSUME UnitInv, [Next]_vars PROVE UnitInv'
  OBVIOUS
<1> USE DEF UnitInv, Pcs, UnitStates
<1>1. CASE Top
  BY <1>1 DEF Top
<1>2. CASE Idle
  BY <1>2 DEF Idle
<1>3. CASE Backoff
  BY <1>3 DEF Backoff
<1>4. CASE Launch
  BY <1>4 DEF Launch
<1>5. CASE Hello
  BY <1>5 DEF Hello
<1>6. CASE Declared
  BY <1>6 DEF Declared
<1>7. CASE HelloTimeout
  BY <1>7 DEF HelloTimeout
<1>8. CASE ChildDies
  BY <1>8 DEF ChildDies
<1>9. CASE Exited
  BY <1>9 DEF Exited
<1>10. CASE RunLoad
  BY <1>10 DEF RunLoad
<1>11. CASE RunKill
  BY <1>11 DEF RunKill
<1>12. CASE RunStop
  BY <1>12 DEF RunStop
<1>13. CASE Terminated
  BY <1>13 DEF Terminated
<1>14. CASE Unset
  BY <1>14 DEF Unset
<1>15. ASSUME NEW c \in {"load", "stop", "kill"}, Request(c) PROVE UnitInv'
  BY <1>15 DEF Request
<1>16. CASE StopAll
  BY <1>16 DEF StopAll
<1>17. CASE UNCHANGED vars
  BY <1>17 DEF vars
<1> QED BY <1>1, <1>2, <1>3, <1>4, <1>5, <1>6, <1>7, <1>8, <1>9, <1>10, <1>11, <1>12, <1>13, <1>14,
           <1>15, <1>16, <1>17 DEF Next

\* However commands, deaths of the child, time-outs and stop_all interleave with the
\* awaits of run_unit, at most one child is alive, and the address local_sfu returns
\* is that of the present start.
THEOREM UnitRunsOneServer == Spec => [](OneMediaServer /\ TypeOK)
<1>1. Init => UnitInv
  BY DEF Init, UnitInv, UnitStates, Pcs
<1>2. UnitInv => OneMediaServer /\ TypeOK
  <2> SUFFICES ASSUME UnitInv PROVE OneMediaServer /\ TypeOK
    OBVIOUS
  <2>1. IsFiniteSet({boot}) /\ Cardinality({boot}) = 1
    BY FS_Singleton
  <2>a. children \in SUBSET {boot}
    BY DEF UnitInv
  <2>2. Cardinality(children) <= 1
    <3> DEFINE b == {boot}
    <3>1. IsFiniteSet(b) /\ Cardinality(b) = 1 /\ children \in SUBSET b
      BY <2>1, <2>a
    <3> HIDE DEF b
    <3> QED BY <3>1, FS_Subset
  <2>3. TypeOK
    BY DEF UnitInv, TypeOK, Pcs
  <2> QED BY <2>2, <2>3 DEF UnitInv, OneMediaServer
<1> QED BY <1>1, <1>2, UnitStep, PTL DEF Spec
=============================================================================
