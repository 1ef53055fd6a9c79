------------------------- MODULE SingleFlightProofs -------------------------
(* What the abstract single flight guarantees whatever implements it.       *)
EXTENDS SingleFlight, TLAPS

\* The types of the abstract state hold in every state: a fetch that ends only clears waits.
LEMMA FlightTypes == Spec => []TypeOK
<1>1. Init => TypeOK
  BY DEF Init, TypeOK
<1>2. TypeOK /\ [Next]_vars => TypeOK'
  <2> SUFFICES ASSUME TypeOK, [Next]_vars PROVE TypeOK'
    OBVIOUS
  <2>1. ASSUME NEW c \in Caller, NEW k \in Key, Ask(c, k) PROVE TypeOK'
    BY <2>1 DEF Ask, TypeOK
  <2>2. ASSUME NEW ended \in SUBSET open, End(ended) PROVE TypeOK'
    BY <2>2 DEF End, TypeOK
  <2>3. CASE UNCHANGED vars
    BY <2>3 DEF vars, TypeOK
  <2> QED
    BY <2>1, <2>2, <2>3 DEF Next
<1> QED
  BY <1>1, <1>2, PTL DEF Spec

\* Whatever implements the single flight never leaves a caller of submit waiting for a page that
\* nobody fetches: it is what a key that is popped too early, or a future that is dropped with
\* its waiters, would break.
THEOREM NoVainWait == Spec => []NobodyWaitsInVain
<1>1. Init => NobodyWaitsInVain
  BY DEF Init, NobodyWaitsInVain
<1>2. TypeOK /\ NobodyWaitsInVain /\ [Next]_vars => NobodyWaitsInVain'
  <2> SUFFICES ASSUME TypeOK, NobodyWaitsInVain, [Next]_vars PROVE NobodyWaitsInVain'
    OBVIOUS
  <2>1. ASSUME NEW c \in Caller, NEW k \in Key, Ask(c, k) PROVE NobodyWaitsInVain'
    BY <2>1 DEF Ask, TypeOK, NobodyWaitsInVain
  <2>2. ASSUME NEW ended \in SUBSET open, End(ended) PROVE NobodyWaitsInVain'
    <3> SUFFICES ASSUME NEW c \in Caller, asks'[c] # NoKey PROVE asks'[c] \in open'
      BY DEF NobodyWaitsInVain
    <3>1. asks[c] \notin ended /\ asks'[c] = asks[c]
      BY <2>2 DEF End
    <3>2. asks[c] \in open
      BY <3>1 DEF NobodyWaitsInVain
    <3> QED
      BY <2>2, <3>1, <3>2 DEF End
  <2>3. CASE UNCHANGED vars
    BY <2>3 DEF vars, NobodyWaitsInVain
  <2> QED
    BY <2>1, <2>2, <2>3 DEF Next
<1> QED
  BY <1>1, <1>2, FlightTypes, PTL DEF Spec

=============================================================================
