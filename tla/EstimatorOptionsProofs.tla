---------------------- MODULE EstimatorOptionsProofs ----------------------
(***************************************************************************)
(* Proofs about EstimatorOptions for every set of levels, dd strings and  *)
(* coupling maps a caller may pass.                                       *)
(***************************************************************************)
EXTENDS EstimatorOptions, TLAPS

\* The type invariant together with the range of the two levels.
OInv == OptionsTypeOK /\ LevelsInRange

\* A value the field accepts has the field's type, and a level is in range.
LEMMA FieldValidFacts ==
  ASSUME NEW f \in Fields, NEW v, FieldValid(f, v)
  PROVE  /\ f \in {"optimization_level", "resilience_level"} => v \in {Unset} \cup 0..3
         /\ f = "dynamical_decoupling" => v \in DDSequenceType \cup {Unset}
         /\ f = "is_simulator" => v \in BOOLEAN
         /\ f = "coupling_map" => v \in CouplingMaps \cup {Unset}
BY OptionsAssumption
DEF FieldValid, FieldType, ValidateOptimizationLevel, ValidateResilienceLevel, Fields

LEMMA OInvInit == Init => OInv
BY DEF Init, OInv, OptionsTypeOK, LevelsInRange, OptionRecords, Outcomes

\* A validated assignment writes only a value the field accepts.
LEMMA AssignStep ==
  ASSUME OInv, NEW f \in Fields, NEW v \in Inputs(f), Assign(f, v)
  PROVE  OInv'
<1>1. CASE ~FieldValid(f, v)
  BY <1>1 DEF Assign, OInv, OptionsTypeOK, LevelsInRange, Outcomes
<1>2. CASE FieldValid(f, v)
  <2>1. opts' = [opts EXCEPT ![f] = v] /\ outcome' \in Outcomes
    BY <1>2 DEF Assign, Outcomes
  <2>2. QED
    BY <1>2, <2>1, FieldValidFacts
    DEF OInv, OptionsTypeOK, LevelsInRange, OptionRecords, Fields
<1>3. QED
  BY <1>1, <1>2

LEMMA ConstructStep ==
  ASSUME OInv, NEW ol \in Levels \cup {Unset}, NEW rl \in Levels \cup {Unset},
         NEW dd \in DDValues \cup {Unset}, NEW cm \in CouplingMaps \cup {Unset},
         Construct(ol, rl, dd, cm)
  PROVE  OInv'
<1>1. CASE /\ FieldValid("optimization_level", ol)
           /\ FieldValid("resilience_level", rl)
           /\ FieldValid("dynamical_decoupling", dd)
  <2>1. ol \in {Unset} \cup 0..3 /\ rl \in {Unset} \cup 0..3
        /\ dd \in DDSequenceType \cup {Unset}
    BY <1>1, FieldValidFacts DEF Fields
  <2>2. \/ opts' = [optimization_level |-> ol, resilience_level |-> rl,
                    dynamical_decoupling |-> dd, is_simulator |-> FALSE,
                    coupling_map |-> cm] /\ outcome' = "ok"
        \/ opts' = opts /\ outcome' = "ValidationError"
    BY DEF Construct
  <2>3. CASE opts' = opts /\ outcome' = "ValidationError"
    BY <2>3 DEF OInv, OptionsTypeOK, LevelsInRange, Outcomes
  <2>4. CASE opts' = [optimization_level |-> ol, resilience_level |-> rl,
                      dynamical_decoupling |-> dd, is_simulator |-> FALSE,
                      coupling_map |-> cm] /\ outcome' = "ok"
    <3>1. opts' \in OptionRecords
      BY <2>1, <2>4 DEF OptionRecords
    <3>2. QED
      BY <2>1, <2>4, <3>1 DEF OInv, OptionsTypeOK, LevelsInRange, Outcomes
  <2>5. QED
    BY <2>2, <2>3, <2>4
<1>2. CASE ~(/\ FieldValid("optimization_level", ol)
             /\ FieldValid("resilience_level", rl)
             /\ FieldValid("dynamical_decoupling", dd))
  BY <1>2 DEF Construct, OInv, OptionsTypeOK, LevelsInRange, Outcomes
<1>3. QED
  BY <1>1, <1>2

LEMMA OInvStep == OInv /\ [Next]_vars => OInv'
<1> SUFFICES ASSUME OInv, [Next]_vars PROVE OInv'
  OBVIOUS
<1>1. CASE \E ol, rl \in Levels \cup {Unset}, dd \in DDValues \cup {Unset},
             cm \in CouplingMaps \cup {Unset} : Construct(ol, rl, dd, cm)
  BY <1>1, ConstructStep
<1>2. CASE \E f \in Fields : \E v \in Inputs(f) : Assign(f, v)
  BY <1>2, AssignStep
<1>3. CASE \E v \in CouplingMaps \cup {Unset} : AssignNestedCouplingMap(v)
  BY <1>3 DEF AssignNestedCouplingMap, OInv, OptionsTypeOK, LevelsInRange,
     OptionRecords, Outcomes
<1>4. CASE AssignUnknown
  BY <1>4 DEF AssignUnknown, OInv, OptionsTypeOK, LevelsInRange, Outcomes
<1>5. CASE UNCHANGED vars
  BY <1>5 DEF vars, OInv, OptionsTypeOK, LevelsInRange
<1>6. QED
  BY <1>1, <1>2, <1>3, <1>4, <1>5 DEF Next

(***************************************************************************)
(* Whatever a caller constructs and assigns, optimization_level and       *)
(* resilience_level are never outside 0..3: the field validators of       *)
(* EstimatorOptions reject a value before validate_assignment writes it.  *)
(***************************************************************************)
THEOREM LevelsAlwaysInRange == Spec => []LevelsInRange
<1>1. Init => OInv
  BY OInvInit
<1>2. OInv /\ [Next]_vars => OInv'
  BY OInvStep
<1>3. OInv => LevelsInRange
  BY DEF OInv
<1>4. QED
  BY <1>1, <1>2, <1>3, PTL DEF Spec

(***************************************************************************)
(* Every EstimatorOptions object the constructor and the validated        *)
(* assignments produce is a record of the declared fields with values of  *)
(* their declared types, and every call ends in a known outcome.          *)
(***************************************************************************)
THEOREM OptionsTypeCorrect == Spec => []OptionsTypeOK
<1>1. OInv => OptionsTypeOK
  BY DEF OInv
<1>2. QED
  BY <1>1, OInvInit, OInvStep, PTL DEF Spec
============================================================================
