-------------------------- MODULE MCDeadNonceList --------------------------
(***************************************************************************)
(* DeadNonceList with any history of additions, marks and adjustments,     *)
(* until the load becomes steady: from then on exactly `load' nonces die   *)
(* between two marks.  The scheduler runs every event that is due (weak    *)
(* fairness).                                                              *)
(***************************************************************************)
EXTENDS DeadNonceList

CONSTANT LOADS   \* the steady loads tried; one is chosen and kept

VARIABLES
  load,    \* nonces per mark interval, Unsteady before that is constant
  burst    \* nonces since the last mark, under a steady load

loadVars == <<vars, load, burst>>

Unsteady == -1

LoadInit == Init /\ load = Unsteady /\ burst = 0

Varying == load = Unsteady /\ Next /\ UNCHANGED <<load, burst>>

BecomeSteady ==
  /\ load = Unsteady /\ load' \in LOADS
  /\ UNCHANGED <<vars, burst>>

Steady ==
  /\ load # Unsteady /\ UNCHANGED load
  /\ \/ burst < load /\ burst' = burst + 1 /\ \E e \in Entry : add(e)
     \/ burst = load /\ burst' = 0 /\ mark
     \/ burst = load /\ adjustCapacity /\ UNCHANGED burst

LoadNext == Varying \/ BecomeSteady \/ Steady

LoadSpec ==
  LoadInit /\ [][LoadNext]_loadVars /\ WF_loadVars(BecomeSteady) /\ WF_loadVars(Steady)

\* "The capacity is adjusted so that every Entry is expected to be kept for
\* m_lifetime" (dead-nonce-list.hpp:143): whatever happened before the load
\* became steady, the control loop of mark() and adjustCapacity() settles
\* where the youngest EXPECTED_MARK_COUNT - 1 full mark intervals are always
\* retained.
EntriesKeptForLifetime ==
  <>[](countMarks(queue) >= EXPECTED_MARK_COUNT - 1)

\* The control loop converges instead of oscillating, whatever capacity and
\* queue the steady load finds.  The run has a wide band: with EXPECTED_MARK_COUNT = 2
\* capacities within a factor of 2 are left alone, with the code's 5 within 1.25,
\* so it says less about the steps of 1.2 and 0.9 than about truncation, clamps
\* and the order of marks and adjustments.
CapacitySettles ==
  \E c \in MIN_CAPACITY..MAX_CAPACITY : <>[](capacity = c)
=============================================================================
