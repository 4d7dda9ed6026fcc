----------------------------- MODULE MCStandalone -----------------------------
(* The parts that share no variable with the rest of the proxy, nor with each *)
(* other: the comparison of two traces, the registry of extensions, the       *)
(* reload of the configuration, the hooks, the circuit breaker and one        *)
(* stream.  A behaviour is one of one of them, so that their states add up    *)
(* instead of multiplying.                                                    *)
EXTENDS MCDiffer, MCHooks, Registry, ConfigReload, Breaker, Stream

CONSTANTS audit, firewall, rules, c1, c2

TwoCallers == {c1, c2}
OneStream == {c2}

Extensions == {audit, firewall, rules}

Extension(n, valid, dependencies, conflictsWith) ==
  [namespace |-> n, valid |-> valid,
   dependencies |-> dependencies, conflictsWith |-> conflictsWith]

\* Two extensions that may each depend on or conflict with any one, and a third
\* that conflicts with one of them.
Offers ==
  {Extension(n, TRUE, d, c) :
     n \in {audit, firewall}, d \in {{}, {audit}, {rules}}, c \in {{}, {audit}, {firewall}}}
    \union {Extension(rules, v, {audit}, c) : v \in BOOLEAN, c \in {{}, {firewall}}}

Lists ==
  {<<Extension(audit, TRUE, {}, {}), Extension(rules, TRUE, {audit}, {firewall}),
     Extension(firewall, TRUE, {rules}, {})>>,
   <<Extension(rules, TRUE, {audit}, {}), Extension(audit, TRUE, {}, {})>>}

VARIABLE part

AnyPair == CHOOSE pair \in LongPairs : TRUE

StandaloneInit ==
  /\ part \in {"differ", "registry", "config", "hooks", "breaker", "stream"}
  /\ Init /\ (part # "differ" => <<baseline, candidate>> = AnyPair)
  /\ ConfigInit /\ (part # "config" => content = Missing)
  /\ HooksInit /\ (part # "hooks" => chainStrategy = "all-execute")
  /\ RegistryInit /\ BreakerInit /\ StreamInit

StandaloneNext ==
  \/ /\ part = "differ" /\ CompareTraces
     /\ UNCHANGED <<part, rvars, cvars, hvars, bvars, svars>>
  \/ /\ part = "registry" /\ RegistryNext
     /\ UNCHANGED <<part, dvars, cvars, hvars, bvars, svars>>
  \/ /\ part = "config" /\ ConfigNext
     /\ UNCHANGED <<part, dvars, rvars, hvars, bvars, svars>>
  \/ /\ part = "hooks" /\ HooksNext
     /\ UNCHANGED <<part, dvars, rvars, cvars, bvars, svars>>
  \/ /\ part = "breaker" /\ BreakerNext
     /\ UNCHANGED <<part, dvars, rvars, cvars, hvars, svars>>
  \/ /\ part = "stream" /\ StreamNext
     /\ UNCHANGED <<part, dvars, rvars, cvars, hvars, bvars>>

\* The fairness of ConfigSpec, BreakerFairSpec and StreamSpec.
StandaloneSpec ==
  /\ StandaloneInit
  /\ [][StandaloneNext]_<<part, dvars, rvars, cvars, hvars, bvars, svars>>
  /\ WF_cvars(part = "config" /\ Manage)
  /\ WF_bvars(part = "breaker" /\ Expire)
  /\ \A c \in Caller : WF_bvars(part = "breaker" /\ Execute(c))
  /\ WF_svars(part = "stream" /\ Provider) /\ WF_svars(part = "stream" /\ Reader)
  /\ WF_svars(part = "stream" /\ Forwarder) /\ WF_svars(part = "stream" /\ Consumer)
  /\ WF_svars(part = "stream" /\ consumer = "gone" /\ Cancel)

\* Both goroutines of StreamChat end, whether its consumer reads to the end, leaves
\* or has its context cancelled: GoroutinesEnd, in a behaviour of the stream.
GoroutinesOfStreamEnd == part = "stream" => GoroutinesEnd
=============================================================================
