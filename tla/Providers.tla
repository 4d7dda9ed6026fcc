------------------------------ MODULE Providers ------------------------------
(***************************************************************************)
(* The providers of the gateway: the router's maps (model_router.go), their *)
(* rows in a provider store, the administrators' requests that change both  *)
(* and the lookup of a chat request (handler.go).                           *)
(*                                                                         *)
(* Nothing here takes a lock.  The router's map holds pointers: a POST puts *)
(* a new configuration in the place of the old one, a PUT changes the       *)
(* configuration that chat requests may be using.  main builds the router   *)
(* without a store (backend "none"); with one, every change is followed by  *)
(* calls of the store whose errors are ignored.                             *)
(***************************************************************************)
EXTENDS Naturals, FiniteSets

CONSTANTS
  Provider,         \* names of providers
  Model,            \* models a provider may list
  Chat,             \* chat requests
  ModelOf,          \* the model each asks for
  Admin,            \* administrators
  ProviderBackend,  \* the provider store
  StoreMayFail,     \* whether its calls may fail
  Upstreams,        \* the configuration file: providers with their models
  DefaultUpstream,  \* and its default
  Price,            \* prices per 1000 tokens
  FilePrice,        \* that of the configuration file
  Column,           \* what PostgreSQL's price column makes of each
  Refused,          \* a price it does not take
  None,             \* no provider, no configuration, no row
  Torn,             \* what a read in the middle of a write may give
  MaxRequests,      \* bound: requests of administrators
  MaxRestarts       \* bound: restarts

ASSUME ChatAssumption == ModelOf \in [Chat -> Model]
ASSUME BackendAssumption ==
  ProviderBackend \in {"none", "postgres", "sqlite"} /\ StoreMayFail \in BOOLEAN
ASSUME UpstreamAssumption ==
  /\ Upstreams \in [Provider -> {None} \union SUBSET Model]
  /\ DefaultUpstream \in Provider \union {None}
ASSUME NoneAssumption ==
  /\ None \notin Provider /\ None \notin 1 .. MaxRequests
  /\ Provider \intersect 1 .. MaxRequests = {}
  /\ \A models \in SUBSET Model : None # models
  /\ Torn \notin 0 .. MaxRequests
\* A DECIMAL(10,6) rounds to six decimals, and what is rounded fits; from 10000
\* on it refuses.  The file's price is one that it takes.
ASSUME PriceAssumption ==
  /\ Refused \notin Price /\ FilePrice \in Price
  /\ Column \in [Price -> Price \union {Refused}]
  /\ \A price \in Price : Column[price] # Refused => Column[Column[price]] = Column[price]
  /\ Column[FilePrice] # Refused
ASSUME BoundAssumption == MaxRequests \in Nat /\ MaxRestarts \in Nat

\* A configuration.  The URL is the number of the request that wrote it, 0 for
\* the configuration file.
Version == 0 .. MaxRequests
Config == [url : Version \union {Torn}, price : Price, models : SUBSET Model]

\* The configurations in memory: those made at start have the provider's name,
\* that of a POST the number of the request.
Object == Provider \union 1 .. MaxRequests

Row == [config : Config, isDefault : BOOLEAN]

ASSUME NoneIsNoRow == None \notin Config /\ None \notin Row

Field == {"url", "models", "price"}

\* What an administrator may ask for in the n-th request.
Request(n) ==
  [number : {n}, kind : {"post"}, name : Provider, fields : {Field},
   models : SUBSET Model, price : Price, makeDefault : BOOLEAN]
  \union
  {q \in [number : {n}, kind : {"put"}, name : Provider, fields : SUBSET Field,
          models : (SUBSET Model) \ {{}}, price : Price, makeDefault : {FALSE}] :
     "price" \in q.fields \/ q.price = FilePrice}
  \union
  [number : {n}, kind : {"put default", "set default", "delete"}, name : Provider,
   fields : {{}}, models : {{}}, price : {FilePrice}, makeDefault : {FALSE}]

Requests == UNION {Request(n) : n \in 1 .. MaxRequests}

VARIABLES
  heap,             \* the configurations in memory
  providers,        \* the router's map of names to configurations
  defaultProvider,  \* the router's default
  rows,             \* the provider store
  erred,            \* whether a call of the store has failed
  received,         \* number of administrators' requests
  restarts,         \* number of restarts
  adminAt,          \* where each administrator's request is
  request,          \* the request
  target,           \* the configuration it works on
  oldDefault,       \* the default it replaces
  fetched,          \* the row it has read
  chatAt,           \* where each chat request is
  ahead,            \* the providers its loop has not come to
  chosen,           \* the configuration it uses
  bill,             \* the price it was estimated at and the URL it was sent to
  expected,         \* the router as its lookup began, and what it then chose
  raced,            \* whether the router changed during the lookup
  edited            \* whether its configuration was written since

router == <<heap, providers, defaultProvider>>
store == <<rows, erred>>
admins == <<received, adminAt, request, target, oldDefault, fetched>>
chats == <<chatAt, ahead, chosen, bill, expected, raced, edited>>
pvars == <<router, store, restarts, admins, chats>>

InAdmin ==
  {"add", "save", "set", "clear read", "clear save", "flag read", "flag save",
   "put url", "put rest of url", "put models", "put price", "remove", "delete", "answer"}
InLookup == {"range", "default", "fetch"}
UsesConfig == {"price", "send"}

TypeOK ==
  /\ heap \in [Object -> Config]
  /\ providers \in [Provider -> Object \union {None}]
  /\ defaultProvider \in Provider \union {None}
  /\ rows \in [Provider -> Row \union {None}]
  /\ erred \in BOOLEAN
  /\ received \in 0 .. MaxRequests
  /\ restarts \in 0 .. MaxRestarts
  /\ adminAt \in [Admin -> {"idle"} \union InAdmin]
  /\ request \in [Admin -> Requests \union {None}]
  /\ target \in [Admin -> Object \union {None}]
  /\ oldDefault \in [Admin -> Provider \union {None}]
  /\ fetched \in [Admin -> Row \union {None}]
  /\ chatAt \in [Chat -> {"idle", "sent", "404", "lost"} \union InLookup \union UsesConfig]
  /\ ahead \in [Chat -> SUBSET Provider]
  /\ chosen \in [Chat -> Object \union {None}]
  /\ bill \in [Chat -> [price : Price, url : Version \union {Torn}]]
  /\ expected \in [Chat -> [candidates : SUBSET Provider,
                            fallback : Provider \union {None},
                            from : Provider \union {None},
                            config : Config]]
  /\ raced \in [Chat -> BOOLEAN]
  /\ edited \in [Chat -> BOOLEAN]
  /\ \A c \in Chat : chatAt[c] \in UsesConfig => chosen[c] # None

-----------------------------------------------------------------------------
(***************************************************************************)
(* The start of the process.                                               *)
(***************************************************************************)
NoConfig == [url |-> 0, price |-> FilePrice, models |-> {}]
Configured(p) ==
  IF Upstreams[p] = None THEN None
  ELSE [url |-> 0, price |-> FilePrice, models |-> Upstreams[p]]

\* What a row keeps of a price, and of a configuration: SQLite's prices are REAL.
InColumn(price) == IF ProviderBackend = "postgres" THEN Column[price] ELSE price
Kept(config) == [config EXCEPT !.price = InColumn(@)]

\* What LoadFromStore gets from List.  SQLite closes the rows before it reads
\* them and returns none.
Listed(table, p) ==
  IF ProviderBackend = "sqlite" \/ table[p] = None THEN None ELSE table[p].config

Flagged(table) == {p \in Provider : table[p] # None /\ table[p].isDefault}

\* LoadFromStore takes the flagged row for the default, main its configuration.
LoadedDefaults(table) ==
  IF ProviderBackend = "none"
  THEN {DefaultUpstream}
  ELSE IF ProviderBackend = "sqlite" \/ Flagged(table) = {}
  THEN {None}
  ELSE Flagged(table)

Loaded(table, p) ==
  IF ProviderBackend = "none" THEN Configured(p) ELSE Listed(table, p)

\* The router that main, or LoadFromStore, builds.
Start(table) ==
  /\ heap' = [o \in Object |->
                IF o \in Provider /\ Loaded(table, o) # None
                THEN Loaded(table, o) ELSE NoConfig]
  /\ providers' = [p \in Provider |-> IF Loaded(table, p) = None THEN None ELSE p]
  /\ defaultProvider' \in LoadedDefaults(table)

\* A process as main starts it, and a store, if there is one, that an earlier
\* process has filled with the same providers.
Init ==
  /\ rows = [p \in Provider |->
               IF ProviderBackend = "none" \/ Configured(p) = None THEN None
               ELSE [config |-> Kept(Configured(p)), isDefault |-> p = DefaultUpstream]]
  /\ heap = [o \in Object |->
               IF o \in Provider /\ Configured(o) # None THEN Configured(o) ELSE NoConfig]
  /\ providers = [p \in Provider |-> IF Configured(p) = None THEN None ELSE p]
  /\ defaultProvider = DefaultUpstream
  /\ erred = FALSE
  /\ received = 0
  /\ restarts = 0
  /\ adminAt = [a \in Admin |-> "idle"]
  /\ request = [a \in Admin |-> None]
  /\ target = [a \in Admin |-> None]
  /\ oldDefault = [a \in Admin |-> None]
  /\ fetched = [a \in Admin |-> None]
  /\ chatAt = [c \in Chat |-> "idle"]
  /\ ahead = [c \in Chat |-> {}]
  /\ chosen = [c \in Chat |-> None]
  /\ bill = [c \in Chat |-> [price |-> FilePrice, url |-> 0]]
  /\ expected = [c \in Chat |-> [candidates |-> {}, fallback |-> None,
                                 from |-> None, config |-> NoConfig]]
  /\ raced = [c \in Chat |-> FALSE]
  /\ edited = [c \in Chat |-> FALSE]

\* The process ends, for instance because the runtime finds two goroutines at
\* one map, and starts again.
Restart ==
  /\ restarts < MaxRestarts
  /\ restarts' = restarts + 1
  /\ Start(rows)
  /\ adminAt' = [a \in Admin |-> "idle"]
  /\ request' = [a \in Admin |-> None]
  /\ target' = [a \in Admin |-> None]
  /\ oldDefault' = [a \in Admin |-> None]
  /\ fetched' = [a \in Admin |-> None]
  /\ chatAt' = [c \in Chat |->
                  IF chatAt[c] \in InLookup \union UsesConfig THEN "lost" ELSE chatAt[c]]
  /\ UNCHANGED <<store, received, ahead, chosen, bill, expected, raced, edited>>

-----------------------------------------------------------------------------
(***************************************************************************)
(* The administrators' requests.                                           *)
(***************************************************************************)
HasStore == ProviderBackend # "none"
Registered == {p \in Provider : providers[p] # None}
Name(a) == request[a].name

AdminGoto(a, where) == adminAt' = [adminAt EXCEPT ![a] = where]

\* Lookups that are under way see a router that changes.
RouterChanges == raced' = [c \in Chat |-> raced[c] \/ chatAt[c] \in InLookup]

\* A write to the configuration o, which chat requests may be using.
Edits(o) ==
  edited' = [c \in Chat |->
               edited[c] \/ (chatAt[c] \in UsesConfig /\ chosen[c] = o)]

\* Decoding the request, and the checks before anything is changed.  A POST
\* makes a configuration; a PUT with is_default checks nothing.
Receive(a, q) ==
  /\ adminAt[a] = "idle" /\ received < MaxRequests
  /\ received' = received + 1
  /\ request' = [request EXCEPT ![a] = q]
  /\ \/ /\ q.kind = "post"
        /\ heap' = [heap EXCEPT ![q.number] =
                      [url |-> q.number, price |-> q.price, models |-> q.models]]
        /\ target' = [target EXCEPT ![a] = q.number]
        /\ AdminGoto(a, "add")
     \/ /\ q.kind = "put default"
        /\ AdminGoto(a, "set")
        /\ UNCHANGED <<heap, target>>
     \/ /\ q.kind \in {"put", "set default", "delete"} /\ q.name \notin Registered
        /\ AdminGoto(a, "answer")
        /\ UNCHANGED <<heap, target>>
     \/ /\ q.kind \in {"put", "set default", "delete"} /\ q.name \in Registered
        /\ target' = [target EXCEPT ![a] = providers[q.name]]
        /\ AdminGoto(a, IF q.kind = "put" THEN "put url"
                        ELSE IF q.kind = "set default" THEN "set" ELSE "remove")
        /\ UNCHANGED heap
  /\ UNCHANGED <<providers, defaultProvider, store, restarts, oldDefault,
                 fetched, chats>>

\* The assignments of a PUT to the configuration in use, one field at a time.
\* A string is written in two parts.
Assign(a, field, value, from, to) ==
  /\ adminAt[a] = from
  /\ IF (field \in request[a].fields)
     THEN /\ heap' = [heap EXCEPT ![target[a]] = value]
          /\ Edits(target[a])
          /\ RouterChanges
     ELSE UNCHANGED <<heap, edited, raced>>
  /\ AdminGoto(a, to)
  /\ UNCHANGED <<providers, defaultProvider, store, restarts, received, request,
                 target, oldDefault, fetched, chatAt, ahead, chosen, bill, expected>>

PutURL(a) ==
  \/ Assign(a, "url", [heap[target[a]] EXCEPT !.url = Torn], "put url", "put rest of url")
  \/ Assign(a, "url", [heap[target[a]] EXCEPT !.url = request[a].number], "put rest of url", "put models")

PutModels(a) ==
  Assign(a, "models", [heap[target[a]] EXCEPT !.models = request[a].models],
         "put models", "put price")

PutPrice(a) ==
  Assign(a, "price", [heap[target[a]] EXCEPT !.price = request[a].price], "put price", "add")

AfterAdd(a) == IF request[a].makeDefault THEN "set" ELSE "answer"

\* Mutant of AddProvider: a POST for a known name changes its configuration.
AddProviderInPlace(a) ==
  /\ adminAt[a] = "add"
  /\ IF Name(a) \in Registered
     THEN /\ heap' = [heap EXCEPT ![providers[Name(a)]] = heap[target[a]]]
          /\ UNCHANGED providers
     ELSE /\ providers' = [providers EXCEPT ![Name(a)] = target[a]]
          /\ UNCHANGED heap
  /\ RouterChanges
  /\ AdminGoto(a, IF HasStore THEN "save" ELSE AfterAdd(a))
  /\ UNCHANGED <<defaultProvider, store, restarts, received, request, target,
                 oldDefault, fetched, chatAt, ahead, chosen, bill, expected, edited>>

\* AddProvider.  After a PUT it puts back a provider deleted in the meantime.
AddProvider(a) ==
  /\ adminAt[a] = "add"
  /\ providers' = [providers EXCEPT ![Name(a)] = target[a]]
  /\ RouterChanges
  /\ AdminGoto(a, IF HasStore THEN "save" ELSE AfterAdd(a))
  /\ UNCHANGED <<heap, defaultProvider, store, restarts, received, request,
                 target, oldDefault, fetched, chatAt, ahead, chosen, bill,
                 expected, edited>>

\* A call of the store: its effect on the rows, or an error that is ignored.
Call(a, possible, effect, then, else) ==
  \/ possible /\ effect /\ AdminGoto(a, then) /\ UNCHANGED erred
  \/ /\ StoreMayFail \/ ~possible
     /\ erred' = TRUE
     /\ AdminGoto(a, else)
     /\ UNCHANGED <<rows, fetched>>

\* Writing a row, with the price as its column keeps it; one that the column
\* refuses is an error.
Fits(row) == InColumn(row.config.price) # Refused
Written(row) == [row EXCEPT !.config = Kept(@)]

Put(a, name, row, then) ==
  Call(a, Fits(row),
       rows' = [rows EXCEPT ![name] = Written(row)] /\ UNCHANGED fetched, then, then)

\* Mutant of NewRow: an update takes the flag away.
NewRowPlain(a) == [config |-> heap[target[a]], isDefault |-> FALSE]

NewRow(a) == [config |-> heap[target[a]], isDefault |-> Name(a) = defaultProvider]

SaveProvider(a) ==
  /\ adminAt[a] = "save"
  /\ Put(a, Name(a), NewRow(a), AfterAdd(a))
  /\ UNCHANGED <<router, restarts, received, request, target, oldDefault, chats>>

SetDefaultProvider(a) ==
  /\ adminAt[a] = "set"
  /\ oldDefault' = [oldDefault EXCEPT ![a] = defaultProvider]
  /\ defaultProvider' = Name(a)
  /\ RouterChanges
  /\ AdminGoto(a, IF ~HasStore THEN "answer"
                  ELSE IF defaultProvider # None THEN "clear read" ELSE "flag read")
  /\ UNCHANGED <<heap, providers, store, restarts, received, request, target,
                 fetched, chatAt, ahead, chosen, bill, expected, edited>>

\* GetByName: a row that is not there is an error too.
Fetch(a, name, then, else) ==
  /\ IF rows[name] = None
     THEN AdminGoto(a, else) /\ UNCHANGED <<erred, fetched>>
     ELSE Call(a, TRUE, fetched' = [fetched EXCEPT ![a] = rows[name]], then, else)
  /\ UNCHANGED rows

ClearOldFlag(a) ==
  /\ \/ /\ adminAt[a] = "clear read"
        /\ Fetch(a, oldDefault[a], "clear save", "flag read")
     \/ /\ adminAt[a] = "clear save"
        /\ Put(a, oldDefault[a], [fetched[a] EXCEPT !.isDefault = FALSE], "flag read")
  /\ UNCHANGED <<router, restarts, received, request, target, oldDefault, chats>>

SetNewFlag(a) ==
  /\ \/ /\ adminAt[a] = "flag read"
        /\ Fetch(a, Name(a), "flag save", "answer")
     \/ /\ adminAt[a] = "flag save"
        /\ Put(a, Name(a), [fetched[a] EXCEPT !.isDefault = TRUE], "answer")
  /\ UNCHANGED <<router, restarts, received, request, target, oldDefault, chats>>

\* RemoveProvider.  Another administrator may have removed it already.
RemoveProvider(a) ==
  /\ adminAt[a] = "remove"
  /\ IF (Name(a) \in Registered)
     THEN /\ providers' = [providers EXCEPT ![Name(a)] = None]
          /\ defaultProvider' = IF defaultProvider = Name(a) THEN None ELSE defaultProvider
          /\ RouterChanges
          /\ AdminGoto(a, IF HasStore THEN "delete" ELSE "answer")
     ELSE /\ AdminGoto(a, "answer")
          /\ UNCHANGED <<providers, defaultProvider, raced>>
  /\ UNCHANGED <<heap, store, restarts, received, request, target, oldDefault,
                 fetched, chatAt, ahead, chosen, bill, expected, edited>>

DeleteRow(a) ==
  /\ adminAt[a] = "delete"
  /\ Call(a, TRUE, rows' = [rows EXCEPT ![Name(a)] = None] /\ UNCHANGED fetched,
          "answer", "answer")
  /\ UNCHANGED <<router, restarts, received, request, target, oldDefault, chats>>

\* The answer is sent, whatever the store has said.
Answer(a) ==
  /\ adminAt[a] = "answer"
  /\ AdminGoto(a, "idle")
  /\ request' = [request EXCEPT ![a] = None]
  /\ target' = [target EXCEPT ![a] = None]
  /\ oldDefault' = [oldDefault EXCEPT ![a] = None]
  /\ fetched' = [fetched EXCEPT ![a] = None]
  /\ UNCHANGED <<router, store, restarts, received, chats>>

Administer(a) ==
  \/ \E q \in Request(received + 1) : Receive(a, q)
  \/ PutURL(a) \/ PutModels(a) \/ PutPrice(a)
  \/ AddProvider(a) \/ SaveProvider(a)
  \/ SetDefaultProvider(a) \/ ClearOldFlag(a) \/ SetNewFlag(a)
  \/ RemoveProvider(a) \/ DeleteRow(a) \/ Answer(a)

-----------------------------------------------------------------------------
(***************************************************************************)
(* The chat request.                                                       *)
(***************************************************************************)
Lists(p, c) == providers[p] # None /\ ModelOf[c] \in heap[providers[p]].models

ChatGoto(c, where) == chatAt' = [chatAt EXCEPT ![c] = where]

\* The range over the router's map begins.
BeginRange(c) ==
  /\ chatAt[c] = "idle"
  /\ ahead' = [ahead EXCEPT ![c] = Registered]
  /\ expected' = [expected EXCEPT
       ![c].candidates = {p \in Provider : Lists(p, c)},
       ![c].fallback = IF defaultProvider \in Registered THEN defaultProvider ELSE None]
  /\ ChatGoto(c, "range")
  /\ UNCHANGED <<router, store, restarts, admins, chosen, bill, raced, edited>>

Choose(c, p) ==
  /\ chosen' = [chosen EXCEPT ![c] = providers[p]]
  /\ expected' = [expected EXCEPT ![c].from = p, ![c].config = heap[providers[p]]]
  /\ ChatGoto(c, "price")

\* The next provider of the range, in any order.  One that was added
\* meanwhile may come up or be left out.
Visit(c, p) ==
  /\ chatAt[c] = "range" /\ p \in Registered
  /\ IF Lists(p, c)
     THEN Choose(c, p) /\ ahead' = [ahead EXCEPT ![c] = {}]
     ELSE /\ ahead' = [ahead EXCEPT ![c] = @ \ {p}]
          /\ UNCHANGED <<chosen, expected, chatAt>>
  /\ UNCHANGED <<router, store, restarts, admins, bill, raced, edited>>

\* Mutant of EndRange: the loop is left before the last provider.
EndRangeEarly(c) ==
  /\ chatAt[c] = "range" /\ Cardinality(ahead[c] \intersect Registered) <= 1
  /\ ChatGoto(c, "default")
  /\ UNCHANGED <<router, store, restarts, admins, ahead, chosen, bill,
                 expected, raced, edited>>

EndRange(c) ==
  /\ chatAt[c] = "range" /\ ahead[c] \intersect Registered = {}
  /\ ChatGoto(c, "default")
  /\ UNCHANGED <<router, store, restarts, admins, ahead, chosen, bill,
                 expected, raced, edited>>

\* The name of the default is read, and then looked up.
ReadDefault(c) ==
  /\ chatAt[c] = "default"
  /\ IF defaultProvider = None
     THEN ChatGoto(c, "404") /\ UNCHANGED ahead
     ELSE ChatGoto(c, "fetch") /\ ahead' = [ahead EXCEPT ![c] = {defaultProvider}]
  /\ UNCHANGED <<router, store, restarts, admins, chosen, bill, expected, raced, edited>>

FetchDefault(c) ==
  /\ chatAt[c] = "fetch"
  /\ \E p \in ahead[c] :
       IF p \in Registered THEN Choose(c, p)
       ELSE ChatGoto(c, "404") /\ UNCHANGED <<chosen, expected>>
  /\ UNCHANGED <<router, store, restarts, admins, ahead, bill, raced, edited>>

\* The estimate that is reserved, from the price.
Estimate(c) ==
  /\ chatAt[c] = "price"
  /\ bill' = [bill EXCEPT ![c].price = heap[chosen[c]].price]
  /\ ChatGoto(c, "send")
  /\ UNCHANGED <<router, store, restarts, admins, ahead, chosen, expected, raced, edited>>

\* The client for the URL, made after the call of the budget store.
Send(c) ==
  /\ chatAt[c] = "send"
  /\ bill' = [bill EXCEPT ![c].url = heap[chosen[c]].url]
  /\ chosen' = [chosen EXCEPT ![c] = None]
  /\ ChatGoto(c, "sent")
  /\ UNCHANGED <<router, store, restarts, admins, ahead, expected, raced, edited>>

Serve(c) ==
  \/ BeginRange(c) \/ (\E p \in Provider : Visit(c, p)) \/ EndRange(c)
  \/ ReadDefault(c) \/ FetchDefault(c)
  \/ Estimate(c) \/ Send(c)

Next ==
  \/ \E a \in Admin : Administer(a)
  \/ \E c \in Chat : Serve(c)
  \/ Restart

Spec == Init /\ [][Next]_pvars

-----------------------------------------------------------------------------
(***************************************************************************)
(* Properties.                                                             *)
(***************************************************************************)
\* A chat request is priced and sent by the configuration it has chosen, as it
\* was then, unless a PUT writes to that configuration: replacing or deleting
\* the provider, or changing the default, does not reach a request under way.
PricedAsSent ==
  \A c \in Chat :
    chatAt[c] = "sent" /\ ~edited[c] =>
      bill[c] = [price |-> expected[c].config.price, url |-> expected[c].config.url]

\* If the router does not change during its lookup, a request goes to a
\* provider that lists its model, to the default if none does, and is answered
\* with 404 only when there is no default either.
RoutedRight ==
  \A c \in Chat :
    ~raced[c] =>
      /\ chatAt[c] \in UsesConfig \union {"sent"} =>
           IF expected[c].candidates # {}
           THEN expected[c].from \in expected[c].candidates
           ELSE expected[c].from = expected[c].fallback
      /\ chatAt[c] = "404" =>
           expected[c].candidates = {} /\ expected[c].fallback = None

AdminsIdle == \A a \in Admin : adminAt[a] = "idle"

\* The default that requests can use.
Default == IF defaultProvider \in Registered THEN defaultProvider ELSE None

\* When no request of an administrator is under way and no call of the store
\* has failed, PostgreSQL has the providers of the router, but for the decimals
\* of their prices, and their default.
StoreFollows ==
  AdminsIdle /\ ~erred /\ ProviderBackend = "postgres" =>
    /\ \A p \in Provider :
         IF p \in Registered
         THEN rows[p] # None /\ rows[p].config = Kept(heap[providers[p]])
         ELSE rows[p] = None
    /\ Flagged(rows) = {Default} \ {None}

Catalogue == <<[p \in Provider |-> IF p \in Registered THEN heap[providers[p]] ELSE None],
               Default>>

\* A restart brings back the providers and the default of the administrators'
\* finished requests, as ARCHITECTURE.md says, which lists persistent providers
\* (PostgreSQL) as a function of the router.  But main makes a router without a
\* store, from the configuration file.
SurvivesRestart == [][Restart /\ AdminsIdle /\ ~erred => Catalogue' = Catalogue]_pvars
=============================================================================
