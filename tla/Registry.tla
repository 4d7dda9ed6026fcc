------------------------------- MODULE Registry -------------------------------
(***************************************************************************)
(* ExtensionRegistry (registry.go): the extensions by namespace, each with *)
(* the namespaces it depends on and conflicts with.  main registers two;   *)
(* its callers are one goroutine at a time, so every call is one step,     *)
(* except LoadFromConfig, whose registrations are a step each.             *)
(*                                                                         *)
(* Handlers, titles, versions and capabilities are left out: Register asks *)
(* of them only what Validate refuses.                                     *)
(***************************************************************************)
EXTENDS Sequences

CONSTANTS
  Namespace,
  Offered, \* bound: the entries that callers register
  Configs  \* bound: the lists that LoadFromConfig is given

\* valid: what Validate says.
Entry == [namespace : Namespace, valid : BOOLEAN,
          dependencies : SUBSET Namespace, conflictsWith : SUBSET Namespace]

ASSUME RegistryAssumption == Offered \subseteq Entry /\ Configs \subseteq Seq(Entry)

VARIABLES
  entries, \* the registered entries, one at most for each namespace
  before,  \* history: <<m, n>>, when m was registered the last time before n was
  loading, \* what LoadFromConfig has still to register
  saved    \* what MarshalJSON has written: entries and their history

rvars == <<entries, before, loading, saved>>

Snapshot == [entries : SUBSET Entry, before : SUBSET (Namespace \X Namespace)]

RegistryTypeOK ==
  /\ entries \subseteq Entry
  /\ before \subseteq Namespace \X Namespace
  /\ loading \in Seq(Entry)
  /\ saved \in Snapshot

RegistryInit ==
  /\ entries = {} /\ before = {}
  /\ loading = <<>>
  /\ saved = [entries |-> {}, before |-> {}]

Registered == {e.namespace : e \in entries}

Without(n) == {e \in entries : e.namespace # n}
OrderWithout(n) == {pair \in before : n \notin {pair[1], pair[2]}}

-----------------------------------------------------------------------------
\* Mutant of Accepts: conflicts only with itself.
AcceptsBeside(e) ==
  /\ e.valid
  /\ e.namespace \notin e.conflictsWith
  /\ e.dependencies \subseteq Registered

\* Register: only the conflicts that the newcomer declares are looked for, and
\* what it depends on may be itself, when it was registered before.
Accepts(e) ==
  /\ e.valid
  /\ e.conflictsWith \cap Registered = {}
  /\ e.dependencies \subseteq Registered

\* An entry of the same namespace is replaced.
Put(e) ==
  /\ entries' = Without(e.namespace) \union {e}
  /\ before' = OrderWithout(e.namespace)
                 \union ((Registered \ {e.namespace}) \X {e.namespace})

\* A refused registration changes nothing.
Register ==
  /\ loading = <<>>
  /\ \E e \in Offered : Accepts(e) /\ Put(e)
  /\ UNCHANGED <<loading, saved>>

\* Mutant of Required: the first entry of a range over the map decides.
RequiredByFirst(n) ==
  entries # {} /\ n \in (CHOOSE e \in entries : TRUE).dependencies

\* Remove asks every entry, the removed one included.
Required(n) == \E e \in entries : n \in e.dependencies

Remove ==
  /\ loading = <<>>
  /\ \E n \in Registered :
       /\ ~Required(n)
       /\ entries' = Without(n)
       /\ before' = OrderWithout(n)
  /\ UNCHANGED <<loading, saved>>

\* LoadFromConfig ends with the first entry that is refused; those before it
\* stay.
LoadFromConfig ==
  /\ loading = <<>>
  /\ loading' \in Configs
  /\ UNCHANGED <<entries, before, saved>>

LoadEntry ==
  /\ loading # <<>>
  /\ IF Accepts(Head(loading))
     THEN Put(Head(loading)) /\ loading' = Tail(loading)
     ELSE UNCHANGED <<entries, before>> /\ loading' = <<>>
  /\ UNCHANGED saved

MarshalJSON ==
  /\ loading = <<>>
  /\ saved' = [entries |-> entries, before |-> before]
  /\ UNCHANGED <<entries, before, loading>>

\* What was saved takes the place of everything, and nothing is asked of it.
UnmarshalJSON ==
  /\ loading = <<>>
  /\ entries' = saved.entries
  /\ before' = saved.before
  /\ UNCHANGED <<loading, saved>>

RegistryNext ==
  Register \/ Remove \/ LoadFromConfig \/ LoadEntry \/ MarshalJSON \/ UnmarshalJSON

RegistrySpec == RegistryInit /\ [][RegistryNext]_rvars

-----------------------------------------------------------------------------
\* What an extension depends on stays registered as long as it is, through
\* replacements, loads that stop half-way and the way through JSON.
AllPresent(set) == \A e \in set : e.dependencies \subseteq {f.namespace : f \in set}
DependenciesPresent == AllPresent(entries)

\* Two extensions of which one declares a conflict are both registered only if
\* the one that declares it came first: the other was not asked, whatever has
\* been replaced, removed or restored since.
LateComersOnly(set, order) ==
  \A e, f \in set :
    e # f /\ f.namespace \in e.conflictsWith => <<e.namespace, f.namespace>> \in order
ConflictsByOrder == LateComersOnly(entries, before)
=============================================================================
