----------------------------- MODULE FakeInput -----------------------------
(***************************************************************************)
(* The fake input controller of src/robots/fake/input.go: init() registers *)
(* its constructor and an attribute converter that decodes the component's *)
(* attribute map into a Config with mapstructure; NewInputController takes *)
(* Config.controls; Controls and LastEvents return the controller's fields *)
(* under its mutex; RegisterControlCallback always fails.                  *)
(***************************************************************************)
EXTENDS FiniteSets

CONSTANTS
    Controls,   \* input.Control values a config may list
    Callers     \* goroutines calling the controller

VARIABLES
    attrs,      \* the controls listed in the component's attribute map
    registered, \* init() has registered the constructor and the converter
    converted,  \* config.ConvertedAttributes: {} or {the decoded Config}
    ctrl,       \* {} or {the constructed controller}
    result      \* result[g]: what g's last call returned

vars == <<attrs, registered, converted, ctrl, result>>

(* The fields of Config and the ones mapstructure can set: only exported  *)
(* fields are set, and Config's one field, controls, is unexported.        *)
ConfigFields == {"controls"}
ExportedFields == {}

(* decoder.Decode(attributes) into a zero Config.                         *)
Decode(attributes) ==
    [f \in ConfigFields |-> IF f \in ExportedFields THEN attributes[f] ELSE {}]

NoResult == [call |-> "none", val |-> {}]

Init ==
    /\ attrs = {}
    /\ registered = FALSE
    /\ converted = {}
    /\ ctrl = {}
    /\ result = [g \in Callers |-> NoResult]

(* init(): registry.RegisterInputController and                          *)
(* config.RegisterComponentAttributeMapConverter.                          *)
RegisterModel ==
    /\ ~registered
    /\ registered' = TRUE
    /\ UNCHANGED <<attrs, converted, ctrl, result>>

(* The robot's config lists the controls cs; the registered converter     *)
(* decodes the attribute map.                                              *)
ConvertAttributes(cs) ==
    /\ registered
    /\ converted = {}
    /\ attrs' = cs
    /\ converted' = {Decode([f \in ConfigFields |-> cs])}
    /\ UNCHANGED <<registered, ctrl, result>>

(* NewInputController: c.controls is taken from the converted Config     *)
(* (a type assertion to a Config pointer) and lastEvents is left nil.     *)
NewInputController ==
    /\ registered
    /\ converted # {}
    /\ ctrl = {}
    /\ ctrl' = {[controls |-> conf.controls, lastEvents |-> {}] : conf \in converted}
    /\ UNCHANGED <<attrs, registered, converted, result>>

(* Controls and LastEvents: lock, read the field, unlock.                 *)
CallControls(g) ==
    /\ \E c \in ctrl : result' = [result EXCEPT ![g] = [call |-> "Controls", val |-> c.controls]]
    /\ UNCHANGED <<attrs, registered, converted, ctrl>>

CallLastEvents(g) ==
    /\ \E c \in ctrl : result' = [result EXCEPT ![g] = [call |-> "LastEvents", val |-> c.lastEvents]]
    /\ UNCHANGED <<attrs, registered, converted, ctrl>>

(* RegisterControlCallback returns errors.New("unsupported").             *)
RegisterControlCallback(g) ==
    /\ ctrl # {}
    /\ result' = [result EXCEPT ![g] = [call |-> "RegisterControlCallback", val |-> "unsupported"]]
    /\ UNCHANGED <<attrs, registered, converted, ctrl>>

Next ==
    \/ RegisterModel
    \/ \E cs \in SUBSET Controls : ConvertAttributes(cs)
    \/ NewInputController
    \/ \E g \in Callers :
          CallControls(g) \/ CallLastEvents(g) \/ RegisterControlCallback(g)

Spec == Init /\ [][Next]_vars

-----------------------------------------------------------------------------
(* Controls lists the controls of the component's config: Config "can     *)
(* list input structs", and NewInputController copies them from it.       *)
ConfiguredControlsListed ==
    \A g \in Callers :
        result[g].call = "Controls" => result[g].val = attrs

=============================================================================
