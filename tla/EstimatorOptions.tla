------------------------- MODULE EstimatorOptions -------------------------
(***************************************************************************)
(* qiskit_ibm_runtime/options/estimator_options.py: an EstimatorOptions    *)
(* object under construction and under attribute assignment.  The class is *)
(* a pydantic dataclass with validate_assignment=True and extra="forbid":  *)
(* an assignment first checks the value against the field's type and its  *)
(* field validator (skipped for Unset), then writes the new __dict__, and *)
(* only then runs the mode="after" model validator on the object.  The    *)
(* simulator group (from OptionsV2, not under src/) is modelled by its     *)
(* coupling_map, and _is_simulator as a field assigned the same way.      *)
(***************************************************************************)
EXTENDS Integers

CONSTANTS
  Unset,         \* the Unset sentinel of options.utils
  Levels,        \* the integers a caller passes as a level
  DDValues,      \* the strings a caller passes as dynamical_decoupling
  CouplingMaps   \* the coupling maps a caller sets (Unset excluded)

\* DDSequenceType = Literal["XX", "XpXm", "XY4"]
DDSequenceType == {"XX", "XpXm", "XY4"}

ASSUME OptionsAssumption ==
  /\ Levels \subseteq Int
  /\ Unset \notin Int \cup DDValues \cup CouplingMaps \cup BOOLEAN
  /\ DDSequenceType \subseteq DDValues

\* The fields an assignment may name; "unknown" stands for any other name.
Fields == {"optimization_level", "resilience_level", "dynamical_decoupling",
           "is_simulator", "coupling_map"}

\* The values a caller may pass for each field.
Inputs(f) ==
  CASE f \in {"optimization_level", "resilience_level"} -> Levels \cup {Unset}
    [] f = "dynamical_decoupling" -> DDValues \cup {Unset}
    [] f = "is_simulator" -> BOOLEAN
    [] f = "coupling_map" -> CouplingMaps \cup {Unset}

\* The values the field's annotation admits (Union[UnsetType, int], ...).
FieldType(f) ==
  CASE f \in {"optimization_level", "resilience_level"} -> Int \cup {Unset}
    [] f = "dynamical_decoupling" -> DDSequenceType \cup {Unset}
    [] f = "is_simulator" -> BOOLEAN
    [] f = "coupling_map" -> CouplingMaps \cup {Unset}

OptionRecords ==
  [optimization_level : Int \cup {Unset}, resilience_level : Int \cup {Unset},
   dynamical_decoupling : DDSequenceType \cup {Unset}, is_simulator : BOOLEAN,
   coupling_map : CouplingMaps \cup {Unset}]

VARIABLES
  opts,     \* the EstimatorOptions object's fields
  outcome   \* what the last constructor call or assignment did

vars == <<opts, outcome>>

Outcomes == {"ok", "ValidationError"}

OptionsTypeOK ==
  /\ opts \in OptionRecords
  /\ outcome \in Outcomes

\* EstimatorOptions(): every field Unset, nested groups default-constructed.
Init ==
  /\ opts = [optimization_level |-> Unset, resilience_level |-> Unset,
             dynamical_decoupling |-> Unset, is_simulator |-> FALSE,
             coupling_map |-> Unset]
  /\ outcome = "ok"

(***************************************************************************)
(* The field validators; @skip_unset_validation returns Unset untouched.  *)
(***************************************************************************)
\* Mutant: the resilience range is checked against 4.
ValidateResilienceLevelOffByOne(v) == v = Unset \/ (0 <= v /\ v <= 4)

ValidateOptimizationLevel(v) == v = Unset \/ (0 <= v /\ v <= 3)

ValidateResilienceLevel(v) == v = Unset \/ (0 <= v /\ v <= 3)

\* A value passes the field's annotation and its field validator.
FieldValid(f, v) ==
  /\ v \in FieldType(f)
  /\ f = "optimization_level" => ValidateOptimizationLevel(v)
  /\ f = "resilience_level" => ValidateResilienceLevel(v)

\* _validate_options: resilience 3 on a simulator needs a coupling map.
ValidateOptions(o) ==
  ~(o.resilience_level = 3 /\ o.is_simulator /\ o.coupling_map = Unset)

(***************************************************************************)
(* EstimatorOptions(optimization_level=..., resilience_level=...,          *)
(* dynamical_decoupling=..., simulator={coupling_map: ...}): every field  *)
(* is validated, then the model validator; a failure raises and the       *)
(* caller's object is the one it had.                                     *)
(***************************************************************************)
Construct(ol, rl, dd, cm) ==
  LET new == [optimization_level |-> ol, resilience_level |-> rl,
              dynamical_decoupling |-> dd, is_simulator |-> FALSE,
              coupling_map |-> cm]
  IN
  IF /\ FieldValid("optimization_level", ol)
     /\ FieldValid("resilience_level", rl)
     /\ FieldValid("dynamical_decoupling", dd)
     /\ ValidateOptions(new)
  THEN opts' = new /\ outcome' = "ok"
  ELSE opts' = opts /\ outcome' = "ValidationError"

\* Mutant: the assignment runs the field validators but not the type check.
AssignNoTypeCheck(f, v) ==
  IF ~(/\ f = "optimization_level" => ValidateOptimizationLevel(v)
       /\ f = "resilience_level" => ValidateResilienceLevel(v))
  THEN opts' = opts /\ outcome' = "ValidationError"
  ELSE LET new == [opts EXCEPT ![f] = v] IN
       /\ opts' = new
       /\ outcome' = IF ValidateOptions(new) THEN "ok" ELSE "ValidationError"

(***************************************************************************)
(* options.f = v under validate_assignment: a value the field rejects     *)
(* raises before anything is written; otherwise the new value is written  *)
(* and the model validator then runs on the updated object, raising if it *)
(* fails, with the new value left in place.                               *)
(***************************************************************************)
Assign(f, v) ==
  IF ~FieldValid(f, v)
  THEN opts' = opts /\ outcome' = "ValidationError"
  ELSE LET new == [opts EXCEPT ![f] = v] IN
       /\ opts' = new
       /\ outcome' = IF ValidateOptions(new) THEN "ok" ELSE "ValidationError"

(***************************************************************************)
(* options.simulator.coupling_map = v: the assignment is validated by the *)
(* nested SimulatorOptions object alone; EstimatorOptions' model          *)
(* validator does not run.                                                *)
(***************************************************************************)
AssignNestedCouplingMap(v) ==
  /\ opts' = [opts EXCEPT !.coupling_map = v]
  /\ outcome' = "ok"

\* options.<unknown> = v: extra="forbid" rejects the name.
AssignUnknown ==
  /\ opts' = opts
  /\ outcome' = "ValidationError"

Next ==
  \/ \E ol, rl \in Levels \cup {Unset}, dd \in DDValues \cup {Unset},
        cm \in CouplingMaps \cup {Unset} : Construct(ol, rl, dd, cm)
  \/ \E f \in Fields : \E v \in Inputs(f) : Assign(f, v)
  \/ \E v \in CouplingMaps \cup {Unset} : AssignNestedCouplingMap(v)
  \/ AssignUnknown

Spec == Init /\ [][Next]_vars

----------------------------------------------------------------------------
(***************************************************************************)
(* Properties.                                                             *)
(***************************************************************************)

(***************************************************************************)
(* Whatever sequence of constructions and assignments, accepted or        *)
(* rejected, the levels stay Unset or within 0..3: the field validators   *)
(* run before the value is written (spec 3, OptionsTree invariants).     *)
(***************************************************************************)
LevelsInRange ==
  /\ opts.optimization_level \in {Unset} \cup 0..3
  /\ opts.resilience_level \in {Unset} \cup 0..3

(***************************************************************************)
(* An assignment or construction that raises leaves the options as they  *)
(* were (spec 4.1: on failure, the tree is left unchanged).               *)
(***************************************************************************)
RejectedLeavesUnchanged ==
  [][outcome' = "ValidationError" => opts' = opts]_vars

(***************************************************************************)
(* A change the object accepts never takes it from satisfying the         *)
(* cross-field rule to breaking it (spec 4.1: cross-field validation      *)
(* re-runs whenever a field the rule references changes).                 *)
(***************************************************************************)
AcceptedChangeValid ==
  [][outcome' = "ok" /\ ValidateOptions(opts) => ValidateOptions(opts')]_vars
============================================================================
