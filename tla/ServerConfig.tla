---------------------------- MODULE ServerConfig ----------------------------
(***************************************************************************)
(* internal/server/config.go: what the server makes of its YAML file.      *)
(*                                                                         *)
(* A file is a function from the keys it writes down to their values; a    *)
(* key it leaves out keeps the value of DefaultConfig.  A host name is the *)
(* sequence of its labels, as strings.ToLower and strings.Trim leave it.   *)
(* "" is an empty value.  Keys the other modules never read are left out.  *)
(***************************************************************************)
EXTENDS Integers, Sequences, FiniteSets

CONSTANT Providers   \* DNS providers the binary has built in (tls.go: dnsProviders)

DefaultConfig ==
    [domain   |-> <<>>,
     http     |-> "80",
     https    |-> "443",
     control  |-> "7223",
     admin    |-> "7224",
     dataDir  |-> "/var/lib/zerock",
     mode     |-> "auto",
     provider |-> "cloudflare",
     token    |-> "",
     cert     |-> "",
     key      |-> "",
     delay    |-> "",
     from     |-> 20000,
     to       |-> 20999]

\* yaml.Unmarshal into the defaults; a key it does not know is passed over.
Unmarshal(file) == [k \in DOMAIN DefaultConfig |-> IF k \in DOMAIN file THEN file[k] ELSE DefaultConfig[k]]

\* The environment wins over the file where it is not empty.
ApplyEnv(c, env) ==
    [c EXCEPT !.token  = IF env.token # "" THEN env.token ELSE @,
              !.domain = IF env.domain # <<>> THEN env.domain ELSE @]

WellShaped(c) ==
    /\ Len(c.domain) >= 2
    /\ c.mode \in {"", "auto", "files", "off"}
    /\ c.from > 0 /\ c.to >= c.from
    /\ c.dataDir # ""

\* Of a config that is WellShaped.  What it makes of the API host and the names
\* reserved for it nobody here asks.
Normalize(c) == [c EXCEPT !.mode = IF @ = "" THEN "auto" ELSE @]

ValidForServing(c) ==
    /\ c.mode = "auto" => c.provider \in Providers /\ c.token # ""
    /\ c.mode = "files" => c.cert # "" /\ c.key # ""
    /\ c.delay # "bad"

\* LoadConfigForInspection: the config, where it does not fail.
Readable(file, env) == WellShaped(ApplyEnv(Unmarshal(file), env))
Inspected(file, env) == Normalize(ApplyEnv(Unmarshal(file), env))

\* LoadConfig succeeds.
Servable(file, env) == Readable(file, env) /\ ValidForServing(Inspected(file, env))

\* The ports Run cannot do without: agents, the edge and the management door.
NeededPorts(c) ==
    {c.control, IF c.mode = "off" THEN c.http ELSE c.https} \cup ({c.admin} \ {""})
=============================================================================
