------------------------------ MODULE MCService ------------------------------
(* Small instances of ServiceController for TLC. *)
EXTENDS ServiceController

\* Names of variables as users write them, and in upper case.
UpperNames == [user |-> "USER", USER |-> "USER", login |-> "LOGIN",
               cluster_name |-> "CLUSTER_NAME"]

Monitoring(version) ==
    [name |-> "monitoring", version |-> version, parameters |-> "p"]
Logging(parameters) ==
    [name |-> "logging", version |-> "1", parameters |-> parameters]

SpecOf(replicas, version, env, extra) ==
    [replicas |-> replicas, version |-> version, flavor |-> "f", env |-> env,
     extra |-> extra]

User(value) == <<Var("user", value)>>

\* One variable more and a new version of an extra; a new version of the
\* application, another value of the variable and a scale down.
Specs ==
    {SpecOf(1, "1", User("a"), <<Monitoring("1"), Logging("p")>>),
     SpecOf(1, "1", User("a") \o <<Var("login", "l")>>,
            <<Monitoring("2"), Logging("p")>>),
     SpecOf(0, "2", User("b"), <<Monitoring("1"), Logging("p")>>)}

\* A variable that is renamed.
RenameSpecs ==
    {SpecOf(1, "1", env, <<>>) : env \in {User("a"), <<Var("login", "a")>>}}

\* Logging without parameters.
NilSpecs == {SpecOf(1, "1", <<>>, <<Logging(NilMap)>>)}

\* A custom cluster name, and an extra that does not exist.
AllSpecs ==
    Specs \cup NilSpecs \cup
    {SpecOf(1, "1", <<Var("cluster_name", "c")>>,
            <<[Monitoring("1") EXCEPT !.name = "alerting"]>>)}
=============================================================================
