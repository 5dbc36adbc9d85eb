----------------------------- MODULE ConfigText -----------------------------
(***************************************************************************)
(* From the text of a report config to the config that runs                *)
(* (config/loader.py) and the changes the assistant may suggest to it      *)
(* (ai/assistant.py).  A raw config is a tree, given by what stands at     *)
(* each of its paths of keys: a mapping, or a scalar.                      *)
(***************************************************************************)
EXTENDS ConfigPolicy

CONSTANT Protected  \* paths a suggested change may not touch

(* _PROTECTED_PATHS: keys of the config, or keys of its sections. *)
ASSUME ProtectedAssumption == \A p \in Protected : Len(p) \in 1..2

Mapping       == [kind |-> "mapping"]
Scalar(parts) == [kind |-> "scalar", parts |-> parts]
Tree(at)      == [kind |-> "tree", at |-> at]

(* An override whose text is no YAML; its error is no ConfigurationError.  *)
Garbled == [kind |-> "garbled"]

(* The scalars of a tree, with their paths. *)
Scalars(at) == {<<p, at[p].parts>> : p \in {q \in DOMAIN at : at[q].kind = "scalar"}}

Under(path, p) == IsPrefix(p, path)

-----------------------------------------------------------------------------
(***************************************************************************)
(* apply_overrides.  An override is a path of keys and a tree, its value.  *)
(***************************************************************************)
(* node.setdefault(key, {}), where path leads to key. *)
Entered(tree, path) ==
    IF tree.kind = "broken" THEN tree
    ELSE IF path \notin DOMAIN tree.at
    THEN Tree([p \in DOMAIN tree.at \cup {path} |-> IF p = path THEN Mapping ELSE tree.at[p]])
    ELSE IF tree.at[path].kind = "mapping" THEN tree
    ELSE Broken("not a mapping")

(* The loop over all keys but the last. *)
Walked(tree, keys) ==
    LET after[n \in 0..(Len(keys) - 1)] ==
            IF n = 0 THEN tree ELSE Entered(after[n - 1], SubSeq(keys, 1, n))
    IN  after[Len(keys) - 1]

(* node[keys[-1]] = value: what was at the path, and below it, is gone.    *)
Replaced(at, path, value) ==
    [p \in {q \in DOMAIN at : ~Under(q, path)} \cup {path \o q : q \in DOMAIN value} |->
        IF Under(p, path) THEN value[SubSeq(p, Len(path) + 1, Len(p))] ELSE at[p]]

Overridden(tree, o) ==
    LET walked == Walked(tree, o.path)
    IN  IF o.path = <<>> THEN Broken("no key")
        ELSE IF walked.kind = "broken" THEN walked
        ELSE IF o.value.kind = "garbled" THEN Broken("raised")
        ELSE Tree(Replaced(walked.at, o.path, o.value.at))

(* The loop over the overrides, which the first error ends. *)
ApplyOverrides(raw, overrides) ==
    LET after[n \in 0..Len(overrides)] ==
            IF n = 0 THEN raw
            ELSE IF after[n - 1].kind = "broken" THEN after[n - 1]
            ELSE Overridden(after[n - 1], overrides[n])
    IN  after[Len(overrides)]

-----------------------------------------------------------------------------
(* load_report_config, ReportRegistry.load. *)
Load(raw, overrides, env, name) ==
    LET tree == ApplyOverrides(raw, overrides)
    IN  IF tree.kind = "broken" THEN tree ELSE Validate(Scalars(tree.at), env, name)

-----------------------------------------------------------------------------
(***************************************************************************)
(* vet_overrides: all suggested changes are kept, or none.                 *)
(***************************************************************************)
KeptChanges(changes) == [kind |-> "kept", changes |-> changes]

(* Mutant: only the protected paths themselves are withheld. *)
WithheldExactly(path) == Len(path) < 2 \/ path \in Protected

(* _OVERRIDE wants a dotted path; protected settings are withheld. *)
Withheld(path) == Len(path) < 2 \/ \E p \in Protected : Under(path, p)

(* load's YAML error is no ConfigurationError: it ends the diagnosis.      *)
VetOverrides(raw, overrides, env, name) ==
    IF \E i \in DOMAIN overrides : Withheld(overrides[i].path) THEN KeptChanges(<<>>)
    ELSE LET loaded == Load(raw, overrides, env, name)
         IN  IF loaded.kind = "config" THEN KeptChanges(overrides)
             ELSE IF loaded.why = "raised" THEN loaded
             ELSE KeptChanges(<<>>)

-----------------------------------------------------------------------------
(***************************************************************************)
(* What editing and loading must do.                                       *)
(***************************************************************************)
(* "Checked exactly like file contents": an override leaves the config of  *)
(* a file in which the setting at its path, and all below it, was replaced,*)
(* and it is refused exactly if a scalar is in the way.                    *)
OverridesAreEdits(raw, o) ==
    LET tree    == ApplyOverrides(raw, <<o>>)
        before  == Scalars(raw.at)
        blocked == \E s \in before : Under(o.path, s[1]) /\ s[1] # o.path
    IN  o.path # <<>> /\ o.value.kind # "garbled" =>
            IF tree.kind = "broken" THEN blocked
            ELSE /\ ~blocked
                 /\ Scalars(tree.at) =
                        {s \in before : ~Under(s[1], o.path)}
                            \cup {<<o.path \o s[1], s[2]>> : s \in Scalars(o.value.at)}

(* The changes kept for a retry are all that were suggested, make a config *)
(* that loads, and leave the protected settings as the file has them.      *)
SuggestionsAreSafe(raw, overrides, env, name) ==
    LET vetted == VetOverrides(raw, overrides, env, name)
        loaded == Load(raw, vetted.changes, env, name)
    IN  IF vetted.kind = "kept"
        THEN vetted.changes # <<>> =>
                /\ vetted.changes = overrides /\ loaded.kind = "config"
                /\ \A p \in Protected :
                      {s \in loaded.settings : Under(s[1], p)}
                          = {s \in Settings(Scalars(raw.at), env) : Under(s[1], p)}
        ELSE \E i \in DOMAIN overrides : overrides[i].value.kind = "garbled"

=============================================================================
