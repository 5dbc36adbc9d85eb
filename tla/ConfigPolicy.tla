---------------------------- MODULE ConfigPolicy ----------------------------
(***************************************************************************)
(* What validate_report (config/loader.py) makes of the scalars of a       *)
(* report config, under the policy for configs (config/policy.py).  A      *)
(* scalar is a path and a sequence of literals and references              *)
(* ${NAME:-default}.  An environment gives each variable a value, "" if it *)
(* is unset or empty, and the policy.                                      *)
(***************************************************************************)
EXTENDS Naturals, Sequences, FiniteSets, SequencesExt

CONSTANTS
    AlwaysDenied,   \* variables no config may name, whatever the allow-list
    KnownKeys       \* the paths of the config schema; others are forbidden

Literal(v)      == [kind |-> "literal", value |-> v]
Reference(n, d) == [kind |-> "reference", name |-> n, default |-> d]

NoDefault == "no default"

(* What stops a config or an override. *)
Broken(why) == [kind |-> "broken", why |-> why]

-----------------------------------------------------------------------------
(***************************************************************************)
(* validate_report.                                                        *)
(***************************************************************************)
(* The variables a config names. *)
Names(scalars) ==
    LET parts == UNION {ToSet(s[2]) : s \in scalars}
    IN  {p.name : p \in {q \in parts : q.kind = "reference"}}

(* ConfigPolicy.from_env, env_allowed: no allow-list is the default one. *)
EnvAllowed(env, name) == name \in env.allowlist \ AlwaysDenied

(* No list of hosts is the host of METABASE_URL, and no host at all, or *, *)
(* is any host.                                                            *)
AllowedHosts(env) ==
    LET hosts == IF env.hosts # {} THEN env.hosts ELSE {env.values["METABASE_URL"]} \ {""}
    IN  IF "*" \in hosts THEN {} ELSE hosts

HostAllowed(env, host) == AllowedHosts(env) = {} \/ host \in AllowedHosts(env)

(* interpolate_env: an empty variable is an unset one. *)
Resolved(part, env) ==
    IF part.kind = "literal" THEN part.value
    ELSE IF env.values[part.name] # "" THEN env.values[part.name]
    ELSE IF part.default # NoDefault THEN part.default
    ELSE "missing"

(* The value of a scalar: its parts in order, empty ones left out. *)
Interpolated(parts, env) ==
    SelectSeq([i \in DOMAIN parts |-> Resolved(parts[i], env)], LAMBDA v : v # "")

Denied(scalars, env) == {n \in Names(scalars) : ~EnvAllowed(env, n)}
Unset(scalars, env)  ==
    {s \in scalars : \E i \in DOMAIN s[2] : Resolved(s[2][i], env) = "missing"}

(* The values of the config, by path. *)
Settings(scalars, env) == {<<s[1], Interpolated(s[2], env)>> : s \in scalars}

Setting(scalars, env, path) == {s[2] : s \in {t \in Settings(scalars, env) : t[1] = path}}

(* StrictModel: unknown keys are forbidden, and name and base_url needed. *)
WellFormed(scalars, env) ==
    /\ \A s \in scalars : s[1] \in KnownKeys
    /\ \A path \in {<<"name">>, <<"source", "base_url">>} :
          \E v \in Setting(scalars, env, path) : Len(v) = 1

(* Mutant: missing variables are reported before the policy is asked. *)
ValidateMissingFirst(scalars, env, name) ==
    IF Unset(scalars, env) # {} THEN Broken("missing")
    ELSE IF Denied(scalars, env) # {} THEN Broken("denied")
    ELSE [kind |-> "config", settings |-> Settings(scalars, env)]

(* The first check that fails decides. *)
Validate(scalars, env, name) ==
    IF Denied(scalars, env) # {} THEN Broken("denied")
    ELSE IF Unset(scalars, env) # {} THEN Broken("missing")
    ELSE IF ~WellFormed(scalars, env) THEN Broken("invalid")
    ELSE IF ~\E v \in Setting(scalars, env, <<"source", "base_url">>) : HostAllowed(env, v[1])
         THEN Broken("host")
    ELSE IF Setting(scalars, env, <<"name">>) # {<<name>>} THEN Broken("name")
    ELSE [kind |-> "config", settings |-> Settings(scalars, env)]

-----------------------------------------------------------------------------
(***************************************************************************)
(* What the policy must do.                                                *)
(***************************************************************************)
(* Only variables a config may read, and the one the policy reads, have a  *)
(* say in what it becomes or in why it is refused.                         *)
OnlyAllowedVariablesMatter(scalars, env, other, name) ==
    (\A n \in DOMAIN env.values :
        EnvAllowed(env, n) \/ n = "METABASE_URL" => env.values[n] = other[n]) =>
        Validate(scalars, env, name) = Validate(scalars, [env EXCEPT !.values = other], name)

=============================================================================
