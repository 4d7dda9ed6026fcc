--------------------------- MODULE Providers_proofs ---------------------------
(***************************************************************************)
(* Proofs about Providers, for every set of providers, administrators and  *)
(* chat requests, every store and every number of requests.                *)
(*                                                                         *)
(* What a chat request uses is safe from a POST because a POST works on a  *)
(* configuration nobody has yet: Fresh says so, and Keeps that what a      *)
(* request has chosen stays as it was until a PUT writes to it.            *)
(***************************************************************************)
EXTENDS Providers, TLAPS

\* What an administrator's request has in hand at each place.
InHand(a) ==
  /\ adminAt[a] # "idle" => request[a] \in Requests
  /\ adminAt[a] \in {"add", "save", "put url", "put rest of url", "put models",
                     "put price"} => target[a] \in Object
  /\ adminAt[a] \in {"clear read", "clear save"} => oldDefault[a] \in Provider
  /\ adminAt[a] \in {"clear save", "flag save"} => fetched[a] \in Row

Places == \A a \in Admin : InHand(a)

Typed == TypeOK /\ Places

\* A configuration that no POST has made yet is in nobody's hands.
Fresh ==
  \A n \in received + 1 .. MaxRequests :
    /\ \A p \in Provider : providers[p] # n
    /\ \A a \in Admin : target[a] # n
    /\ \A c \in Chat : chosen[c] # n

Keeps ==
  \A c \in Chat : ~edited[c] =>
    /\ chatAt[c] \in UsesConfig => heap[chosen[c]] = expected[c].config
    /\ chatAt[c] = "send" => bill[c].price = expected[c].config.price
    /\ chatAt[c] = "sent" =>
         bill[c] = [price |-> expected[c].config.price, url |-> expected[c].config.url]

IInv == Typed /\ Fresh /\ Keeps

LEMMA NoneIsNothing ==
  /\ None \notin Provider
  /\ None \notin Object
  /\ \A p \in Provider : p \notin 1 .. MaxRequests
BY NoneAssumption DEF Object

\* The parts of a request.
LEMMA RequestParts ==
  ASSUME NEW q \in Requests
  PROVE  /\ q.number \in 1 .. MaxRequests
         /\ q.name \in Provider
         /\ q.models \in SUBSET Model
         /\ q.price \in Price
         /\ q.kind \in {"post", "put", "put default", "set default", "delete"}
<1>1. PICK n \in 1 .. MaxRequests : q \in Request(n)
  BY DEF Requests
<1>2. q.number = n
  BY <1>1 DEF Request
<1>3. q.name \in Provider /\ q.models \in SUBSET Model /\ q.price \in Price
  BY <1>1, PriceAssumption DEF Request
<1>4. q.kind \in {"post", "put", "put default", "set default", "delete"}
  BY <1>1 DEF Request
<1> QED
  BY <1>2, <1>3, <1>4

LEMMA NextRequest ==
  ASSUME received \in 0 .. MaxRequests, received < MaxRequests,
         NEW q \in Request(received + 1)
  PROVE  q \in Requests /\ q.number = received + 1 /\ received + 1 \in 1 .. MaxRequests
<1>1. received + 1 \in 1 .. MaxRequests
  BY BoundAssumption
<1>2. q \in Requests
  BY <1>1 DEF Requests
<1>3. q.number = received + 1
  BY DEF Request
<1> QED
  BY <1>1, <1>2, <1>3

-----------------------------------------------------------------------------
(***************************************************************************)
(* Types.                                                                  *)
(***************************************************************************)
LEMMA NoConfigType == NoConfig \in Config
BY BoundAssumption, PriceAssumption DEF NoConfig, Config, Version

LEMMA ConfiguredType ==
  ASSUME NEW p \in Provider
  PROVE  Configured(p) \in Config \union {None}
BY UpstreamAssumption, BoundAssumption, PriceAssumption DEF Configured, Config, Version

\* What is written of a row that fits is a row, and written again stays as it is.
LEMMA WrittenRow ==
  ASSUME NEW row \in Row, Fits(row)
  PROVE  /\ Written(row) \in Row
         /\ Written(row).config = Kept(row.config)
         /\ Written(row).isDefault = row.isDefault
         /\ Kept(Written(row).config) = Written(row).config
<1>1. row.config \in Config /\ row.isDefault \in BOOLEAN
  BY DEF Row
<1>2. /\ InColumn(row.config.price) \in Price
      /\ InColumn(InColumn(row.config.price)) = InColumn(row.config.price)
  BY <1>1, PriceAssumption DEF Fits, InColumn, Config
<1>3. /\ Kept(row.config) \in Config
      /\ Kept(row.config).price = InColumn(row.config.price)
  BY <1>1, <1>2 DEF Kept, Config
<1>4. Kept(Kept(row.config)) = Kept(row.config)
  BY <1>2, <1>3 DEF Kept, Config
<1> QED
  BY <1>1, <1>3, <1>4 DEF Written, Row

\* A write of a row goes on whatever comes of it, and is the row's if it succeeds.
LEMMA PutFacts ==
  ASSUME NEW a, NEW name \in Provider, NEW row \in Row, NEW then,
         Put(a, name, row, then), rows \in [Provider -> Row \union {None}], erred \in BOOLEAN
  PROVE  /\ AdminGoto(a, then) /\ fetched' = fetched
         /\ rows' \in [Provider -> Row \union {None}] /\ erred' \in BOOLEAN
         /\ \/ rows' = rows /\ erred'
            \/ /\ Fits(row) /\ erred' = erred
               /\ rows' = [rows EXCEPT ![name] = Written(row)]
<1>1. CASE Fits(row) /\ rows' = [rows EXCEPT ![name] = Written(row)]
  BY <1>1, WrittenRow DEF Put, Call
<1>2. CASE rows' = rows /\ erred' = TRUE
  BY <1>2 DEF Put, Call
<1> QED
  BY <1>1, <1>2 DEF Put, Call

LEMMA LoadedType ==
  ASSUME NEW p \in Provider, rows \in [Provider -> Row \union {None}]
  PROVE  Loaded(rows, p) \in Config \union {None}
BY ConfiguredType DEF Loaded, Listed, Row

\* The rows of an earlier process.
LEMMA FirstRow ==
  ASSUME Init, NEW p \in Provider, ProviderBackend # "none", Configured(p) # None
  PROVE  /\ rows[p] \in Row /\ rows[p].config = Kept(Configured(p))
         /\ rows[p].isDefault = (p = DefaultUpstream)
         /\ Kept(rows[p].config) = rows[p].config
<1> DEFINE row == [config |-> Configured(p), isDefault |-> p = DefaultUpstream]
<1>1. row \in Row /\ row.config = Configured(p) /\ Configured(p).price = FilePrice
  BY ConfiguredType DEF Row, Configured
<1>2. Fits(row)
  BY <1>1, PriceAssumption DEF Fits, InColumn
<1>3. rows[p] = Written(row)
  BY DEF Init, Written
<1> QED
  BY <1>1, <1>2, <1>3, WrittenRow

LEMMA InitTyped == Init => IInv
<1> SUFFICES ASSUME Init PROVE IInv
  OBVIOUS
<1>1. heap \in [Object -> Config]
  BY NoConfigType, ConfiguredType DEF Init
<1>2. rows \in [Provider -> Row \union {None}]
  <2> SUFFICES ASSUME NEW p \in Provider PROVE rows[p] \in Row \union {None}
    BY DEF Init
  <2>1. CASE ProviderBackend = "none" \/ Configured(p) = None
    BY <2>1 DEF Init
  <2>2. CASE ~ (ProviderBackend = "none" \/ Configured(p) = None)
    BY <2>2, FirstRow
  <2> QED
    BY <2>1, <2>2
<1>3. /\ providers \in [Provider -> Object \union {None}]
      /\ defaultProvider \in Provider \union {None}
  BY UpstreamAssumption DEF Init, Object
<1>4. received \in 0 .. MaxRequests /\ restarts \in 0 .. MaxRestarts
  BY BoundAssumption DEF Init
<1>5. expected \in [Chat -> [candidates : SUBSET Provider,
                            fallback : Provider \union {None},
                            from : Provider \union {None},
                            config : Config]]
  BY NoConfigType DEF Init
<1>6. bill \in [Chat -> [price : Price, url : Version \union {Torn}]]
  BY BoundAssumption, PriceAssumption DEF Init, Version
<1>7. TypeOK
  BY <1>1, <1>2, <1>3, <1>4, <1>5, <1>6 DEF Init, TypeOK, InLookup, UsesConfig
<1>8. Places
  BY DEF Init, Places, InHand
<1>9. Fresh
  <2>1. received = 0 /\ None \notin 1 .. MaxRequests
    BY NoneAssumption DEF Init
  <2>2. \A p \in Provider : providers[p] = None \/ providers[p] = p
    BY DEF Init
  <2>3. /\ \A a \in Admin : target[a] = None
        /\ \A c \in Chat : chosen[c] = None
    BY DEF Init
  <2> QED
    BY <2>1, <2>2, <2>3, NoneIsNothing DEF Fresh
<1>10. Keeps
  BY DEF Init, Keeps, UsesConfig
<1> QED
  BY <1>7, <1>8, <1>9, <1>10 DEF IInv, Typed

LEMMA RestartTyped ==
  ASSUME Typed, Restart
  PROVE  Typed'
<1>1. heap' \in [Object -> Config]
  BY NoConfigType, LoadedType DEF Typed, TypeOK, Restart, Start
<1>2. providers' \in [Provider -> Object \union {None}]
  BY DEF Restart, Start, Object
<1>3. defaultProvider' \in Provider \union {None}
  BY UpstreamAssumption DEF Restart, Start, LoadedDefaults, Flagged
<1>4. restarts' \in 0 .. MaxRestarts
  BY BoundAssumption DEF Typed, TypeOK, Restart
<1>5. TypeOK'
  BY <1>1, <1>2, <1>3, <1>4
  DEF Typed, TypeOK, Restart, store, InLookup, UsesConfig
<1>6. Places'
  BY DEF Restart, Places, InHand
<1> QED
  BY <1>5, <1>6 DEF Typed

LEMMA ReceiveTyped ==
  ASSUME Typed, NEW a \in Admin, NEW q \in Request(received + 1), Receive(a, q)
  PROVE  Typed'
<1>1. /\ received \in 0 .. MaxRequests /\ received < MaxRequests
      /\ heap \in [Object -> Config] /\ target \in [Admin -> Object \union {None}]
      /\ providers \in [Provider -> Object \union {None}]
  BY DEF Typed, TypeOK, Receive
<1>2. /\ q \in Requests /\ q.number = received + 1 /\ q.number \in 1 .. MaxRequests
      /\ q.name \in Provider /\ q.models \in SUBSET Model /\ q.price \in Price
  BY <1>1, NextRequest, RequestParts
<1>3. received' \in 0 .. MaxRequests
  <2>1. received' = received + 1
    BY DEF Receive
  <2> QED
    BY <1>1, <2>1, BoundAssumption
<1>4. q.number \in Object /\ q.number \in Version
  BY <1>2, BoundAssumption DEF Object, Version
<1>5. heap' \in [Object -> Config]
  <2> DEFINE made == [url |-> q.number, price |-> q.price, models |-> q.models]
  <2>1. heap' = heap \/ heap' = [heap EXCEPT ![q.number] = made]
    BY DEF Receive
  <2>2. made \in Config
    BY <1>2, <1>4 DEF Config
  <2> QED
    BY <1>1, <1>4, <2>1, <2>2
<1>6. target' \in [Admin -> Object \union {None}]
  BY <1>1, <1>2, <1>4 DEF Receive
<1>7. request' \in [Admin -> Requests \union {None}] /\ request'[a] = q
  BY <1>2 DEF Typed, TypeOK, Receive
<1>8. /\ adminAt' = [adminAt EXCEPT ![a] = adminAt'[a]]
      /\ adminAt'[a] \in {"add", "set", "answer", "put url", "remove"}
      /\ adminAt'[a] \in {"add", "put url"} => target'[a] \in Object
  BY <1>1, <1>2, <1>4 DEF Typed, TypeOK, Receive, AdminGoto, Registered
<1>9. UNCHANGED <<providers, defaultProvider, rows, erred, restarts, oldDefault,
                  fetched, chatAt, ahead, chosen, bill, expected, raced, edited>>
  BY DEF Receive, store, chats
<1>10. TypeOK'
  <2>1. adminAt' \in [Admin -> {"idle"} \union InAdmin]
    BY <1>8 DEF Typed, TypeOK, InAdmin
  <2> QED
    BY <1>3, <1>5, <1>6, <1>7, <1>9, <2>1 DEF Typed, TypeOK
<1>11. Places'
  <2>1. \A b \in Admin : b # a => /\ adminAt'[b] = adminAt[b]
                                  /\ request'[b] = request[b]
                                  /\ target'[b] = target[b]
    BY <1>8 DEF Typed, TypeOK, Receive
  <2>2. \A b \in Admin : b # a => InHand(b)'
    BY <1>9, <2>1 DEF Typed, Places, InHand
  <2>3. InHand(a)'
    BY <1>2, <1>7, <1>8 DEF InHand
  <2> QED
    BY <2>2, <2>3 DEF Places
<1> QED
  BY <1>10, <1>11 DEF Typed

\* The administrators whose requests do not move have in hand what they had.
LEMMA Others ==
  ASSUME Typed, NEW a \in Admin, NEW where \in {"idle"} \union InAdmin,
         AdminGoto(a, where),
         \A b \in Admin : b # a => /\ request'[b] = request[b]
                                  /\ target'[b] = target[b]
                                  /\ oldDefault'[b] = oldDefault[b]
                                  /\ fetched'[b] = fetched[b],
         InHand(a)'
  PROVE  Places' /\ adminAt' \in [Admin -> {"idle"} \union InAdmin]
<1>1. /\ adminAt' \in [Admin -> {"idle"} \union InAdmin]
      /\ \A b \in Admin : b # a => adminAt'[b] = adminAt[b]
  BY DEF Typed, TypeOK, AdminGoto
<1>2. \A b \in Admin : b # a => InHand(b)'
  BY <1>1 DEF Typed, Places, InHand
<1> QED
  BY <1>1, <1>2 DEF Places

LEMMA Noticed ==
  /\ RouterChanges => raced' \in [Chat -> BOOLEAN]
  /\ \A o : Edits(o) => edited' \in [Chat -> BOOLEAN]
BY Zenon DEF RouterChanges, Edits

LEMMA PutTyped ==
  ASSUME Typed, NEW a \in Admin, PutURL(a) \/ PutModels(a) \/ PutPrice(a)
  PROVE  Typed'
<1>1. target[a] \in Object /\ request[a] \in Requests
  BY DEF Typed, TypeOK, Places, InHand, PutURL, PutModels, PutPrice, Assign
<1>2. /\ request[a].number \in Version /\ request[a].models \in SUBSET Model
      /\ request[a].price \in Price
  <2>1. /\ request[a].number \in 1 .. MaxRequests
        /\ request[a].models \in SUBSET Model /\ request[a].price \in Price
    BY <1>1, RequestParts
  <2> QED
    BY <2>1, BoundAssumption DEF Version
<1>3. heap \in [Object -> Config] /\ heap[target[a]] \in Config
  BY <1>1 DEF Typed, TypeOK
<1>4. /\ [heap[target[a]] EXCEPT !.url = Torn] \in Config
      /\ [heap[target[a]] EXCEPT !.url = request[a].number] \in Config
      /\ [heap[target[a]] EXCEPT !.models = request[a].models] \in Config
      /\ [heap[target[a]] EXCEPT !.price = request[a].price] \in Config
  BY <1>2, <1>3 DEF Config
<1>5. heap' \in [Object -> Config]
  BY <1>1, <1>3, <1>4 DEF PutURL, PutModels, PutPrice, Assign
<1>6. raced' \in [Chat -> BOOLEAN] /\ edited' \in [Chat -> BOOLEAN]
  <2>1. raced \in [Chat -> BOOLEAN] /\ edited \in [Chat -> BOOLEAN]
    BY DEF Typed, TypeOK
  <2>2. \/ RouterChanges /\ Edits(target[a])
        \/ raced' = raced /\ edited' = edited
    BY DEF PutURL, PutModels, PutPrice, Assign
  <2> QED
    BY <2>1, <2>2, Noticed
<1>7. UNCHANGED <<providers, defaultProvider, rows, erred, restarts, received, request,
                  target, oldDefault, fetched, chatAt, ahead, chosen, bill, expected>>
  BY DEF PutURL, PutModels, PutPrice, Assign, store
<1>8. PICK to \in {"put rest of url", "put models", "put price", "add"} : AdminGoto(a, to)
  BY DEF PutURL, PutModels, PutPrice, Assign
<1>9. InHand(a)'
  BY <1>1, <1>7, <1>8 DEF InHand, AdminGoto, Typed, TypeOK
<1>10. Places' /\ adminAt' \in [Admin -> {"idle"} \union InAdmin]
  BY <1>7, <1>8, <1>9, Others DEF InAdmin
<1> QED
  BY <1>5, <1>6, <1>7, <1>10 DEF Typed, TypeOK

\* The remaining requests change neither the configurations nor what an
\* administrator works on.
LEMMA AddTyped ==
  ASSUME Typed, NEW a \in Admin, AddProvider(a)
  PROVE  Typed'
<1>1. target[a] \in Object /\ request[a] \in Requests /\ Name(a) \in Provider
  BY RequestParts DEF Typed, Places, InHand, AddProvider, Name
<1>2. providers' \in [Provider -> Object \union {None}]
  BY <1>1 DEF Typed, TypeOK, AddProvider
<1>3. raced' \in [Chat -> BOOLEAN]
  BY Noticed DEF AddProvider
<1>4. UNCHANGED <<heap, defaultProvider, rows, erred, restarts, received, request,
                  target, oldDefault, fetched, chatAt, ahead, chosen, bill,
                  expected, edited>>
  BY DEF AddProvider, store
<1>5. PICK where \in {"save", "set", "answer"} : AdminGoto(a, where)
  BY DEF AddProvider, AfterAdd
<1>6. InHand(a)'
  BY <1>1, <1>4, <1>5 DEF InHand, AdminGoto, Typed, TypeOK
<1>7. Places' /\ adminAt' \in [Admin -> {"idle"} \union InAdmin]
  BY <1>4, <1>5, <1>6, Others DEF InAdmin
<1> QED
  BY <1>2, <1>3, <1>4, <1>7 DEF Typed, TypeOK

LEMMA SaveTyped ==
  ASSUME Typed, NEW a \in Admin, SaveProvider(a)
  PROVE  Typed'
<1>1. target[a] \in Object /\ request[a] \in Requests /\ Name(a) \in Provider
  BY RequestParts DEF Typed, Places, InHand, SaveProvider, Name
<1>2. rows' \in [Provider -> Row \union {None}]
  <2>1. NewRow(a) \in Row
    BY <1>1 DEF Typed, TypeOK, NewRow, Row
  <2>2. rows \in [Provider -> Row \union {None}] /\ erred \in BOOLEAN
    BY DEF Typed, TypeOK
  <2> QED
    BY <1>1, <2>1, <2>2, PutFacts DEF SaveProvider
<1>3. erred' \in BOOLEAN /\ fetched' = fetched
  BY DEF Typed, TypeOK, SaveProvider, Call, Put
<1>4. UNCHANGED <<heap, providers, defaultProvider, restarts, received, request,
                  target, oldDefault, chatAt, ahead, chosen, bill,
                  expected, raced, edited>>
  BY DEF SaveProvider, router, chats
<1>5. PICK where \in {"set", "answer"} : AdminGoto(a, where)
  BY DEF SaveProvider, Put, Call, AfterAdd
<1>6. InHand(a)'
  BY <1>1, <1>4, <1>5 DEF InHand, AdminGoto, Typed, TypeOK
<1>7. Places' /\ adminAt' \in [Admin -> {"idle"} \union InAdmin]
  BY <1>3, <1>4, <1>5, <1>6, Others DEF InAdmin
<1> QED
  BY <1>2, <1>3, <1>4, <1>7 DEF Typed, TypeOK

LEMMA SetTyped ==
  ASSUME Typed, NEW a \in Admin, SetDefaultProvider(a)
  PROVE  Typed'
<1>1. request[a] \in Requests /\ Name(a) \in Provider
  BY RequestParts DEF Typed, Places, InHand, SetDefaultProvider, Name
<1>2. /\ defaultProvider' \in Provider \union {None}
      /\ oldDefault' \in [Admin -> Provider \union {None}]
      /\ \A b \in Admin : b # a => oldDefault'[b] = oldDefault[b]
      /\ oldDefault'[a] = defaultProvider
  BY <1>1 DEF Typed, TypeOK, SetDefaultProvider
<1>3. raced' \in [Chat -> BOOLEAN]
  BY Noticed DEF SetDefaultProvider
<1>4. UNCHANGED <<heap, providers, rows, erred, restarts, received, request,
                  target, fetched, chatAt, ahead, chosen, bill, expected, edited>>
  BY DEF SetDefaultProvider, store
<1>5. PICK where \in {"clear read", "flag read", "answer"} :
        /\ AdminGoto(a, where)
        /\ where = "clear read" => defaultProvider # None
  BY DEF SetDefaultProvider
<1>6. InHand(a)'
  BY <1>1, <1>2, <1>4, <1>5 DEF InHand, AdminGoto, Typed, TypeOK
<1>7. Places' /\ adminAt' \in [Admin -> {"idle"} \union InAdmin]
  BY <1>2, <1>4, <1>5, <1>6, Others DEF InAdmin
<1> QED
  BY <1>2, <1>3, <1>4, <1>7 DEF Typed, TypeOK

\* A call of the store changes its rows, what the administrator has read and
\* the place of the request.
LEMMA StoreTyped ==
  ASSUME Typed, NEW a \in Admin, request[a] \in Requests,
         UNCHANGED <<router, restarts, received, request, target, oldDefault, chats>>,
         rows' \in [Provider -> Row \union {None}],
         erred' \in BOOLEAN,
         fetched' = [fetched EXCEPT ![a] = fetched'[a]],
         fetched'[a] \in Row \union {None},
         NEW where \in {"clear save", "flag read", "flag save", "answer"},
         AdminGoto(a, where),
         where = "clear save" => oldDefault[a] \in Provider,
         where \in {"clear save", "flag save"} => fetched'[a] \in Row
  PROVE  Typed'
<1>1. UNCHANGED <<heap, providers, defaultProvider, restarts, received, request,
                  target, oldDefault, chatAt, ahead, chosen, bill,
                  expected, raced, edited>>
  BY DEF router, chats
<1>2. /\ fetched' \in [Admin -> Row \union {None}]
      /\ \A b \in Admin : b # a => fetched'[b] = fetched[b]
  BY DEF Typed, TypeOK
<1>3. InHand(a)'
  BY <1>1 DEF InHand, AdminGoto, Typed, TypeOK
<1>4. Places' /\ adminAt' \in [Admin -> {"idle"} \union InAdmin]
  BY <1>1, <1>2, <1>3, Others DEF InAdmin
<1> QED
  BY <1>1, <1>2, <1>4 DEF Typed, TypeOK

LEMMA ClearTyped ==
  ASSUME Typed, NEW a \in Admin, ClearOldFlag(a)
  PROVE  Typed'
<1>1. /\ request[a] \in Requests /\ oldDefault[a] \in Provider
      /\ adminAt[a] = "clear save" => fetched[a] \in Row
  BY RequestParts DEF Typed, Places, InHand, ClearOldFlag, Name
<1>2. /\ rows \in [Provider -> Row \union {None}]
      /\ fetched \in [Admin -> Row \union {None}]
      /\ erred \in BOOLEAN
  BY DEF Typed, TypeOK
<1>3. UNCHANGED <<router, restarts, received, request, target, oldDefault, chats>>
  BY DEF ClearOldFlag
<1>4. CASE adminAt[a] = "clear read" /\ Fetch(a, oldDefault[a], "clear save", "flag read")
  <2>1. rows' = rows /\ erred' \in BOOLEAN
    BY <1>2, <1>4 DEF Fetch, Call
  <2>2. CASE AdminGoto(a, "flag read") /\ fetched' = fetched
    BY <1>1, <1>2, <1>3, <2>1, <2>2, StoreTyped
  <2>3. CASE /\ AdminGoto(a, "clear save") /\ rows[oldDefault[a]] # None
             /\ fetched' = [fetched EXCEPT ![a] = rows[oldDefault[a]]]
    <3>1. rows[oldDefault[a]] \in Row
      BY <1>1, <1>2, <2>3
    <3>2. fetched'[a] \in Row /\ fetched' = [fetched EXCEPT ![a] = fetched'[a]]
      BY <1>2, <2>3, <3>1
    <3> QED
      BY <1>1, <1>2, <1>3, <2>1, <2>3, <3>2, StoreTyped
  <2> QED
    BY <1>4, <2>2, <2>3 DEF Fetch, Call
<1>5. CASE /\ adminAt[a] = "clear save"
           /\ Put(a, oldDefault[a], [fetched[a] EXCEPT !.isDefault = FALSE], "flag read")
  <2>1. [fetched[a] EXCEPT !.isDefault = FALSE] \in Row
    BY <1>1, <1>5 DEF Row
  <2>2. /\ rows' \in [Provider -> Row \union {None}] /\ erred' \in BOOLEAN
        /\ fetched' = fetched
    BY <1>1, <1>2, <1>5, <2>1, PutFacts
  <2>3. AdminGoto(a, "flag read")
    BY <1>5 DEF Put, Call
  <2> QED
    BY <1>1, <1>2, <1>3, <2>2, <2>3, StoreTyped
<1> QED
  BY <1>4, <1>5 DEF ClearOldFlag

LEMMA FlagTyped ==
  ASSUME Typed, NEW a \in Admin, SetNewFlag(a)
  PROVE  Typed'
<1>1. /\ request[a] \in Requests /\ Name(a) \in Provider
      /\ adminAt[a] = "flag save" => fetched[a] \in Row
  BY RequestParts DEF Typed, Places, InHand, SetNewFlag, Name
<1>2. /\ rows \in [Provider -> Row \union {None}]
      /\ fetched \in [Admin -> Row \union {None}]
      /\ erred \in BOOLEAN
  BY DEF Typed, TypeOK
<1>3. UNCHANGED <<router, restarts, received, request, target, oldDefault, chats>>
  BY DEF SetNewFlag
<1>4. CASE adminAt[a] = "flag read" /\ Fetch(a, Name(a), "flag save", "answer")
  <2>1. rows' = rows /\ erred' \in BOOLEAN
    BY <1>2, <1>4 DEF Fetch, Call
  <2>2. CASE AdminGoto(a, "answer") /\ fetched' = fetched
    BY <1>1, <1>2, <1>3, <2>1, <2>2, StoreTyped
  <2>3. CASE /\ AdminGoto(a, "flag save") /\ rows[Name(a)] # None
             /\ fetched' = [fetched EXCEPT ![a] = rows[Name(a)]]
    <3>1. rows[Name(a)] \in Row
      BY <1>1, <1>2, <2>3
    <3>2. fetched'[a] \in Row /\ fetched' = [fetched EXCEPT ![a] = fetched'[a]]
      BY <1>2, <2>3, <3>1
    <3> QED
      BY <1>1, <1>2, <1>3, <2>1, <2>3, <3>2, StoreTyped
  <2> QED
    BY <1>4, <2>2, <2>3 DEF Fetch, Call
<1>5. CASE /\ adminAt[a] = "flag save"
           /\ Put(a, Name(a), [fetched[a] EXCEPT !.isDefault = TRUE], "answer")
  <2>1. [fetched[a] EXCEPT !.isDefault = TRUE] \in Row
    BY <1>1, <1>5 DEF Row
  <2>2. /\ rows' \in [Provider -> Row \union {None}] /\ erred' \in BOOLEAN
        /\ fetched' = fetched
    BY <1>1, <1>2, <1>5, <2>1, PutFacts
  <2>3. AdminGoto(a, "answer")
    BY <1>5 DEF Put, Call
  <2> QED
    BY <1>1, <1>2, <1>3, <2>2, <2>3, StoreTyped
<1> QED
  BY <1>4, <1>5 DEF SetNewFlag

LEMMA DeleteTyped ==
  ASSUME Typed, NEW a \in Admin, DeleteRow(a)
  PROVE  Typed'
<1>1. request[a] \in Requests /\ Name(a) \in Provider
  BY RequestParts DEF Typed, Places, InHand, DeleteRow, Name
<1>2. /\ rows' \in [Provider -> Row \union {None}] /\ erred' \in BOOLEAN
      /\ fetched' = fetched /\ fetched \in [Admin -> Row \union {None}]
  BY <1>1 DEF Typed, TypeOK, DeleteRow, Call
<1>3. /\ UNCHANGED <<router, restarts, received, request, target, oldDefault, chats>>
      /\ AdminGoto(a, "answer")
  BY DEF DeleteRow, Call
<1> QED
  BY <1>1, <1>2, <1>3, StoreTyped

LEMMA RemoveTyped ==
  ASSUME Typed, NEW a \in Admin, RemoveProvider(a)
  PROVE  Typed'
<1>1. request[a] \in Requests /\ Name(a) \in Provider
  BY RequestParts DEF Typed, Places, InHand, RemoveProvider, Name
<1>2. /\ providers' \in [Provider -> Object \union {None}]
      /\ defaultProvider' \in Provider \union {None}
  BY <1>1 DEF Typed, TypeOK, RemoveProvider
<1>3. raced' \in [Chat -> BOOLEAN]
  <2>1. raced \in [Chat -> BOOLEAN] /\ (RouterChanges \/ raced' = raced)
    BY DEF Typed, TypeOK, RemoveProvider
  <2> QED
    BY <2>1, Noticed
<1>4. UNCHANGED <<heap, rows, erred, restarts, received, request, target, oldDefault,
                  fetched, chatAt, ahead, chosen, bill, expected, edited>>
  BY DEF RemoveProvider, store
<1>5. PICK where \in {"delete", "answer"} : AdminGoto(a, where)
  BY DEF RemoveProvider
<1>6. InHand(a)'
  BY <1>1, <1>4, <1>5 DEF InHand, AdminGoto, Typed, TypeOK
<1>7. Places' /\ adminAt' \in [Admin -> {"idle"} \union InAdmin]
  BY <1>4, <1>5, <1>6, Others DEF InAdmin
<1> QED
  BY <1>2, <1>3, <1>4, <1>7 DEF Typed, TypeOK

LEMMA AnswerTyped ==
  ASSUME Typed, NEW a \in Admin, Answer(a)
  PROVE  Typed'
<1>1. UNCHANGED <<heap, providers, defaultProvider, rows, erred, restarts, received,
                  chatAt, ahead, chosen, bill, expected, raced, edited>>
  BY DEF Answer, router, store, chats
<1>2. /\ request' \in [Admin -> Requests \union {None}]
      /\ target' \in [Admin -> Object \union {None}]
      /\ oldDefault' \in [Admin -> Provider \union {None}]
      /\ fetched' \in [Admin -> Row \union {None}]
      /\ \A b \in Admin : b # a => /\ request'[b] = request[b]
                                   /\ target'[b] = target[b]
                                   /\ oldDefault'[b] = oldDefault[b]
                                   /\ fetched'[b] = fetched[b]
  BY DEF Typed, TypeOK, Answer
<1>3. AdminGoto(a, "idle")
  BY DEF Answer
<1>4. InHand(a)'
  BY <1>3 DEF InHand, AdminGoto, Typed, TypeOK
<1>5. Places' /\ adminAt' \in [Admin -> {"idle"} \union InAdmin]
  BY <1>2, <1>3, <1>4, Others
<1> QED
  BY <1>1, <1>2, <1>5 DEF Typed, TypeOK

LEMMA AdministerTyped ==
  ASSUME Typed, NEW a \in Admin, Administer(a)
  PROVE  Typed'
BY ReceiveTyped, PutTyped, AddTyped, SaveTyped, SetTyped, ClearTyped, FlagTyped,
   RemoveTyped, DeleteTyped, AnswerTyped DEF Administer

\* A chat request leaves the administrators and the router alone.
LEMMA ServeLeaves ==
  ASSUME NEW c \in Chat, Serve(c)
  PROVE  /\ UNCHANGED <<heap, providers, defaultProvider, rows, erred, restarts,
                        received, adminAt, request, target, oldDefault, fetched>>
         /\ raced' = raced /\ edited' = edited
<1>1. UNCHANGED <<router, store, restarts, admins, raced, edited>>
  BY DEF Serve, BeginRange, Visit, EndRange, ReadDefault, FetchDefault, Estimate, Send
<1> QED
  BY <1>1 DEF router, store, admins

Expected == [candidates : SUBSET Provider, fallback : Provider \union {None},
             from : Provider \union {None}, config : Config]

\* A chat request moves itself and chooses for itself.
LEMMA ServeMoves ==
  ASSUME NEW c \in Chat, Serve(c),
         chatAt \in [Chat -> {"idle", "sent", "404", "lost"} \union InLookup \union UsesConfig],
         chosen \in [Chat -> Object \union {None}],
         ahead \in [Chat -> SUBSET Provider]
  PROVE  /\ \E where \in {"sent", "404"} \union InLookup \union UsesConfig :
              chatAt' = [chatAt EXCEPT ![c] = where]
         /\ \E what : chosen' = [chosen EXCEPT ![c] = what]
<1> DEFINE places == {"sent", "404"} \union InLookup \union UsesConfig
           moved == /\ \E where \in places : chatAt' = [chatAt EXCEPT ![c] = where]
                    /\ \E what : chosen' = [chosen EXCEPT ![c] = what]
<1>1. {"sent", "404", "range", "default", "fetch", "price", "send"} \subseteq places
  BY DEF InLookup, UsesConfig
<1>2. chosen = [chosen EXCEPT ![c] = chosen[c]] /\ chatAt = [chatAt EXCEPT ![c] = chatAt[c]]
  OBVIOUS
<1>3. ASSUME NEW p \in Provider, Choose(c, p) PROVE moved
  BY <1>1, <1>3, Zenon DEF Choose, ChatGoto
<1>4. CASE \E p \in Provider : Visit(c, p)
  <2>1. chatAt[c] = "range"
    BY <1>4 DEF Visit
  <2> QED
    BY <1>1, <1>2, <1>3, <1>4, <2>1, Zenon DEF Visit
<1>5. CASE FetchDefault(c)
  <2>1. ahead[c] \subseteq Provider
    OBVIOUS
  <2> QED
    BY <1>1, <1>2, <1>3, <1>5, <2>1, Zenon DEF FetchDefault, ChatGoto
<1>6. CASE BeginRange(c) \/ EndRange(c) \/ ReadDefault(c)
  BY <1>1, <1>2, <1>6, Zenon DEF BeginRange, EndRange, ReadDefault, ChatGoto
<1>7. CASE Estimate(c) \/ Send(c)
  BY <1>1, <1>2, <1>7, Zenon DEF Estimate, Send, ChatGoto
<1> QED
  BY <1>4, <1>5, <1>6, <1>7 DEF Serve

LEMMA ServeTyped ==
  ASSUME Typed, NEW c \in Chat, Serve(c)
  PROVE  Typed'
<1>1. /\ heap \in [Object -> Config]
      /\ providers \in [Provider -> Object \union {None}]
      /\ defaultProvider \in Provider \union {None}
      /\ ahead \in [Chat -> SUBSET Provider]
      /\ chosen \in [Chat -> Object \union {None}]
      /\ chatAt \in [Chat -> {"idle", "sent", "404", "lost"} \union InLookup \union UsesConfig]
      /\ bill \in [Chat -> [price : Price, url : Version \union {Torn}]]
      /\ expected \in [Chat -> Expected]
      /\ \A d \in Chat : chatAt[d] \in UsesConfig => chosen[d] # None
  BY DEF Typed, TypeOK, Expected
<1>2. ahead' \in [Chat -> SUBSET Provider]
  BY <1>1 DEF Serve, BeginRange, Visit, EndRange, ReadDefault, FetchDefault,
              Estimate, Send, Registered
<1>3. chatAt' \in [Chat -> {"idle", "sent", "404", "lost"} \union InLookup \union UsesConfig]
  BY <1>1, ServeMoves
<1>4. chosen' \in [Chat -> Object \union {None}]
  BY <1>1 DEF Serve, BeginRange, Visit, EndRange, ReadDefault, FetchDefault,
              Estimate, Send, Choose, Registered
<1>5. bill' \in [Chat -> [price : Price, url : Version \union {Torn}]]
  <2>1. CASE Estimate(c)
    <3>1. chosen[c] \in Object
      BY <1>1, <2>1 DEF Estimate, UsesConfig
    <3>2. heap[chosen[c]].price \in Price
      BY <1>1, <3>1 DEF Config
    <3> QED
      BY <1>1, <2>1, <3>2 DEF Estimate
  <2>2. CASE Send(c)
    <3>1. chosen[c] \in Object
      BY <1>1, <2>2 DEF Send, UsesConfig
    <3>2. heap[chosen[c]].url \in Version \union {Torn}
      BY <1>1, <3>1 DEF Config
    <3> QED
      BY <1>1, <2>2, <3>2 DEF Send
  <2>3. CASE bill' = bill
    BY <1>1, <2>3
  <2> QED
    BY <2>1, <2>2, <2>3 DEF Serve, BeginRange, Visit, EndRange, ReadDefault, FetchDefault
<1>6. expected' \in [Chat -> Expected]
  <2>1. ASSUME NEW p \in Provider, Choose(c, p), p \in Registered
        PROVE  expected' \in [Chat -> Expected]
    <3>1. heap[providers[p]] \in Config
      BY <1>1, <2>1 DEF Registered
    <3>2. [expected[c] EXCEPT !.from = p, !.config = heap[providers[p]]] \in Expected
      BY <1>1, <3>1 DEF Expected
    <3>3. expected' = [expected EXCEPT
                         ![c] = [expected[c] EXCEPT !.from = p, !.config = heap[providers[p]]]]
      BY <2>1 DEF Choose
    <3> QED
      BY <1>1, <3>2, <3>3
  <2>2. CASE BeginRange(c)
    <3> DEFINE listed == {p \in Provider : Lists(p, c)}
               default == IF defaultProvider \in Registered THEN defaultProvider ELSE None
    <3>1. listed \in SUBSET Provider /\ default \in Provider \union {None}
      BY DEF Registered
    <3>2. expected' = [expected EXCEPT
                         ![c] = [expected[c] EXCEPT !.candidates = listed, !.fallback = default]]
      BY <2>2 DEF BeginRange
    <3> HIDE DEF listed, default
    <3>3. [expected[c] EXCEPT !.candidates = listed, !.fallback = default] \in Expected
      BY <1>1, <3>1 DEF Expected
    <3> QED
      BY <1>1, <3>2, <3>3
  <2>3. CASE \E p \in Provider : Visit(c, p)
    BY <1>1, <2>1, <2>3 DEF Visit
  <2>4. CASE FetchDefault(c)
    BY <1>1, <2>1, <2>4 DEF FetchDefault
  <2>5. CASE expected' = expected
    BY <1>1, <2>5
  <2> QED
    BY <2>2, <2>3, <2>4, <2>5 DEF Serve, EndRange, ReadDefault, Estimate, Send
<1>7. \A d \in Chat : chatAt'[d] \in UsesConfig => chosen'[d] # None
  <2>1. \A d \in Chat : d # c => chatAt'[d] = chatAt[d] /\ chosen'[d] = chosen[d]
    <3>1. /\ \E where : chatAt' = [chatAt EXCEPT ![c] = where]
          /\ \E what : chosen' = [chosen EXCEPT ![c] = what]
      BY <1>1, ServeMoves
    <3> QED
      BY <1>1, <3>1
  <2>2. ASSUME NEW p \in Provider, Choose(c, p), p \in Registered
        PROVE  chosen'[c] # None
    BY <1>1, <2>2 DEF Choose, Registered
  <2>3. CASE \E p \in Provider : p \in Registered /\ Choose(c, p)
    BY <1>1, <2>1, <2>2, <2>3
  <2>4. CASE chatAt'[c] \notin UsesConfig
    BY <1>1, <2>1, <2>4
  <2>5. CASE Estimate(c)
    BY <1>1, <2>1, <2>5 DEF Estimate, ChatGoto, UsesConfig
  <2>6. CASE \E p \in Provider : Visit(c, p)
    <3>1. CASE \E p \in Provider : p \in Registered /\ Choose(c, p)
      BY <2>3, <3>1
    <3>2. CASE UNCHANGED <<chosen, chatAt>>
      BY <1>1, <3>2
    <3> QED
      BY <2>6, <3>1, <3>2 DEF Visit
  <2>7. CASE FetchDefault(c)
    <3>1. ahead[c] \in SUBSET Provider
      BY <1>1
    <3>2. CASE chatAt'[c] = "404"
      BY <2>4, <3>2 DEF UsesConfig
    <3> QED
      BY <1>1, <2>3, <2>7, <3>1, <3>2 DEF FetchDefault, ChatGoto
  <2> QED
    BY <1>1, <2>4, <2>5, <2>6, <2>7
    DEF Serve, BeginRange, EndRange, ReadDefault, Send, ChatGoto, UsesConfig
<1>8. TypeOK'
  BY <1>2, <1>3, <1>4, <1>5, <1>6, <1>7, ServeLeaves DEF Typed, TypeOK, Expected
<1>9. Places'
  BY ServeLeaves DEF Typed, Places, InHand
<1> QED
  BY <1>8, <1>9 DEF Typed

LEMMA StutterTyped == Typed /\ UNCHANGED pvars => Typed'
BY DEF Typed, TypeOK, Places, InHand, pvars, router, store, admins, chats

LEMMA NextTyped == Typed /\ [Next]_pvars => Typed'
BY AdministerTyped, ServeTyped, RestartTyped, StutterTyped DEF Next

-----------------------------------------------------------------------------
(***************************************************************************)
(* What nobody has.                                                        *)
(***************************************************************************)
Untouched == UNCHANGED <<providers, target, chosen, received>>

LEMMA UntouchedFresh == Fresh /\ Untouched => Fresh'
BY DEF Fresh, Untouched

LEMMA ReceiveFresh ==
  ASSUME Typed, Fresh, NEW a \in Admin, NEW q \in Request(received + 1), Receive(a, q)
  PROVE  Fresh'
<1>1. /\ received \in 0 .. MaxRequests /\ received < MaxRequests
      /\ received' = received + 1
      /\ target \in [Admin -> Object \union {None}]
  BY DEF Typed, TypeOK, Receive
<1>2. q \in Requests /\ q.number = received + 1 /\ q.name \in Provider
  BY <1>1, NextRequest, RequestParts
<1>3. SUFFICES ASSUME NEW n \in received' + 1 .. MaxRequests
               PROVE  /\ \A p \in Provider : providers'[p] # n
                      /\ \A b \in Admin : target'[b] # n
                      /\ \A c \in Chat : chosen'[c] # n
  BY DEF Fresh
<1>4. n \in received + 1 .. MaxRequests /\ n # received + 1
  BY <1>1, BoundAssumption
<1>5. /\ \A p \in Provider : providers[p] # n
      /\ \A b \in Admin : target[b] # n
      /\ \A c \in Chat : chosen[c] # n
  BY <1>4 DEF Fresh
<1>6. /\ providers' = providers /\ chosen' = chosen
      /\ \/ target' = target
         \/ target' = [target EXCEPT ![a] = q.number]
         \/ target' = [target EXCEPT ![a] = providers[q.name]]
  BY DEF Receive, chats
<1>7. \A b \in Admin : target'[b] # n
  BY <1>1, <1>2, <1>4, <1>5, <1>6
<1> QED
  BY <1>5, <1>6, <1>7

LEMMA AdministerFresh ==
  ASSUME Typed, Fresh, NEW a \in Admin, Administer(a)
  PROVE  Fresh'
<1>1. CASE \E q \in Request(received + 1) : Receive(a, q)
  BY <1>1, ReceiveFresh
<1>2. CASE AddProvider(a)
  <2>1. /\ UNCHANGED <<target, chosen, received>>
        /\ providers' = [providers EXCEPT ![Name(a)] = target[a]]
        /\ providers \in [Provider -> Object \union {None}]
    BY <1>2 DEF AddProvider, Typed, TypeOK
  <2> QED
    BY <2>1 DEF Fresh
<1>3. CASE RemoveProvider(a)
  <2>1. /\ UNCHANGED <<target, chosen, received>>
        /\ \A p \in Provider : providers'[p] \in {providers[p], None}
    BY <1>3 DEF RemoveProvider, Typed, TypeOK
  <2>2. \A n \in received + 1 .. MaxRequests : n # None
    BY NoneAssumption, BoundAssumption DEF Typed, TypeOK
  <2> QED
    BY <2>1, <2>2 DEF Fresh
<1>4. CASE Answer(a)
  <2>1. /\ UNCHANGED <<providers, chosen, received>>
        /\ \A b \in Admin : target'[b] \in {target[b], None}
    BY <1>4 DEF Answer, Typed, TypeOK, router, chats
  <2>2. \A n \in received + 1 .. MaxRequests : n # None
    BY NoneAssumption, BoundAssumption DEF Typed, TypeOK
  <2> QED
    BY <2>1, <2>2 DEF Fresh
<1>5. CASE PutURL(a) \/ PutModels(a) \/ PutPrice(a)
  BY <1>5, UntouchedFresh DEF PutURL, PutModels, PutPrice, Assign, Untouched
<1>6. CASE SaveProvider(a) \/ ClearOldFlag(a) \/ SetNewFlag(a) \/ DeleteRow(a)
  BY <1>6, UntouchedFresh
  DEF SaveProvider, ClearOldFlag, SetNewFlag, DeleteRow, router, chats, Untouched
<1>7. CASE SetDefaultProvider(a)
  BY <1>7, UntouchedFresh DEF SetDefaultProvider, Untouched
<1> QED
  BY <1>1, <1>2, <1>3, <1>4, <1>5, <1>6, <1>7 DEF Administer

LEMMA ServeFresh ==
  ASSUME Typed, Fresh, NEW c \in Chat, Serve(c)
  PROVE  Fresh'
<1>1. UNCHANGED <<providers, target, received>>
  BY ServeLeaves
<1>2. \A d \in Chat : \/ chosen'[d] \in {chosen[d], None}
                     \/ \E p \in Provider : chosen'[d] = providers[p]
  <2>1. chosen \in [Chat -> Object \union {None}] /\ ahead[c] \in SUBSET Provider
    BY DEF Typed, TypeOK
  <2>2. CASE \E p \in Provider : Choose(c, p)
    BY <2>1, <2>2 DEF Choose
  <2>3. CASE chosen' = [chosen EXCEPT ![c] = None] \/ chosen' = chosen
    BY <2>1, <2>3
  <2> QED
    BY <2>1, <2>2, <2>3 DEF Serve, BeginRange, Visit, EndRange, ReadDefault, FetchDefault,
                            Estimate, Send
<1>3. \A n \in received + 1 .. MaxRequests : n # None
  BY NoneAssumption, BoundAssumption DEF Typed, TypeOK
<1> QED
  BY <1>1, <1>2, <1>3 DEF Fresh

LEMMA RestartFresh ==
  ASSUME Typed, Fresh, Restart
  PROVE  Fresh'
<1>1. /\ UNCHANGED <<received, chosen>>
      /\ \A p \in Provider : providers'[p] \in {None, p}
      /\ \A a \in Admin : target'[a] = None
  BY DEF Restart, Start
<1>2. \A n \in received + 1 .. MaxRequests : n \in 1 .. MaxRequests
  BY BoundAssumption DEF Typed, TypeOK
<1>3. \A n \in received + 1 .. MaxRequests : n # None /\ n \notin Provider
  BY <1>2, NoneAssumption
<1> QED
  BY <1>1, <1>3 DEF Fresh

-----------------------------------------------------------------------------
(***************************************************************************)
(* What a chat request keeps.                                              *)
(***************************************************************************)
\* Steps that leave chat requests and the configurations they use as they are.
LEMMA SameKeeps ==
  ASSUME Keeps, UNCHANGED <<chatAt, chosen, bill, expected>>,
         \A c \in Chat : ~edited'[c] =>
           /\ ~edited[c]
           /\ chatAt[c] \in UsesConfig => heap'[chosen[c]] = heap[chosen[c]]
  PROVE  Keeps'
BY DEF Keeps

LEMMA ReceiveKeeps ==
  ASSUME Typed, Fresh, Keeps, NEW a \in Admin, NEW q \in Request(received + 1),
         Receive(a, q)
  PROVE  Keeps'
<1>1. /\ received \in 0 .. MaxRequests /\ received < MaxRequests
      /\ heap \in [Object -> Config] /\ chosen \in [Chat -> Object \union {None}]
      /\ \A c \in Chat : chatAt[c] \in UsesConfig => chosen[c] # None
  BY DEF Typed, TypeOK, Receive
<1>2. q.number = received + 1 /\ received + 1 \in 1 .. MaxRequests
  BY <1>1, NextRequest
<1>3. \A c \in Chat : chosen[c] # q.number
  <2>1. received + 1 \in received + 1 .. MaxRequests
    BY <1>1, BoundAssumption
  <2> QED
    BY <1>2, <2>1 DEF Fresh
<1>4. /\ UNCHANGED <<chatAt, chosen, bill, expected, edited>>
      /\ \/ heap' = heap
         \/ heap' = [heap EXCEPT ![q.number] = heap'[q.number]]
  BY <1>1, <1>2 DEF Receive, chats, Object
<1>5. \A c \in Chat : chatAt[c] \in UsesConfig => heap'[chosen[c]] = heap[chosen[c]]
  BY <1>1, <1>3, <1>4
<1> QED
  BY <1>4, <1>5, SameKeeps

LEMMA PutKeeps ==
  ASSUME Typed, Keeps, NEW a \in Admin, PutURL(a) \/ PutModels(a) \/ PutPrice(a)
  PROVE  Keeps'
<1>1. /\ heap \in [Object -> Config] /\ chosen \in [Chat -> Object \union {None}]
      /\ edited \in [Chat -> BOOLEAN]
      /\ \A c \in Chat : chatAt[c] \in UsesConfig => chosen[c] # None
  BY DEF Typed, TypeOK
<1>2. UNCHANGED <<chatAt, chosen, bill, expected>>
  BY DEF PutURL, PutModels, PutPrice, Assign
<1>3. CASE heap' = heap /\ edited' = edited
  BY <1>2, <1>3, SameKeeps
<1>4. CASE Edits(target[a]) /\ \E value : heap' = [heap EXCEPT ![target[a]] = value]
  <2>1. \A c \in Chat : ~edited'[c] =>
          ~edited[c] /\ (chatAt[c] \in UsesConfig => chosen[c] # target[a])
    BY <1>4, Zenon DEF Edits
  <2>2. \A c \in Chat : chatAt[c] \in UsesConfig /\ chosen[c] # target[a] =>
          heap'[chosen[c]] = heap[chosen[c]]
    BY <1>1, <1>4
  <2> QED
    BY <1>2, <2>1, <2>2, SameKeeps
<1>5. \/ heap' = heap /\ edited' = edited
      \/ Edits(target[a]) /\ \E value : heap' = [heap EXCEPT ![target[a]] = value]
  BY DEF PutURL, PutModels, PutPrice, Assign
<1> QED
  BY <1>3, <1>4, <1>5

LEMMA AdministerKeeps ==
  ASSUME Typed, Fresh, Keeps, NEW a \in Admin, Administer(a)
  PROVE  Keeps'
<1>1. CASE \E q \in Request(received + 1) : Receive(a, q)
  BY <1>1, ReceiveKeeps
<1>2. CASE PutURL(a) \/ PutModels(a) \/ PutPrice(a)
  BY <1>2, PutKeeps
<1>3. CASE UNCHANGED <<heap, chatAt, chosen, bill, expected, edited>>
  BY <1>3, SameKeeps
<1> QED
  BY <1>1, <1>2, <1>3
  DEF Administer, AddProvider, SaveProvider, SetDefaultProvider, ClearOldFlag,
      SetNewFlag, RemoveProvider, DeleteRow, Answer, router, chats

LEMMA ServeKeeps ==
  ASSUME Typed, Keeps, NEW c \in Chat, Serve(c)
  PROVE  Keeps'
<1>1. UNCHANGED <<heap, edited>>
  BY ServeLeaves
<1>2. /\ bill[c] \in [price : Price, url : Version \union {Torn}]
      /\ chatAt \in [Chat -> {"idle", "sent", "404", "lost"} \union InLookup \union UsesConfig]
      /\ bill \in [Chat -> [price : Price, url : Version \union {Torn}]]
      /\ chosen \in [Chat -> Object \union {None}]
      /\ expected \in [Chat -> Expected]
  BY DEF Typed, TypeOK, Expected
<1>3. \A d \in Chat : d # c => /\ chatAt'[d] = chatAt[d]
                              /\ chosen'[d] = chosen[d]
                              /\ bill'[d] = bill[d]
                              /\ expected'[d] = expected[d]
  BY <1>2 DEF Serve, BeginRange, Visit, EndRange, ReadDefault, FetchDefault,
              Estimate, Send, Choose, ChatGoto
<1>4. SUFFICES ASSUME ~edited[c]
               PROVE  /\ chatAt'[c] \in UsesConfig => heap[chosen'[c]] = expected'[c].config
                      /\ chatAt'[c] = "send" => bill'[c].price = expected'[c].config.price
                      /\ chatAt'[c] = "sent" =>
                           bill'[c] = [price |-> expected'[c].config.price,
                                       url |-> expected'[c].config.url]
  BY <1>1, <1>3 DEF Keeps
<1>5. /\ chatAt[c] \in UsesConfig => heap[chosen[c]] = expected[c].config
      /\ chatAt[c] = "send" => bill[c].price = expected[c].config.price
      /\ chatAt[c] = "sent" =>
           bill[c] = [price |-> expected[c].config.price, url |-> expected[c].config.url]
  BY <1>4 DEF Keeps
<1>6. ASSUME NEW p \in Provider, Choose(c, p)
      PROVE  /\ chatAt'[c] = "price"
             /\ heap[chosen'[c]] = expected'[c].config
  <2>1. chosen'[c] = providers[p] /\ chatAt'[c] = "price"
    BY <1>2, <1>6 DEF Choose, ChatGoto
  <2>2. expected'[c].config = heap[providers[p]]
    BY <1>2, <1>6 DEF Choose, Expected
  <2> QED
    BY <2>1, <2>2
<1>7. CASE (\E p \in Provider : Visit(c, p)) \/ FetchDefault(c)
  <2>1. CASE \E p \in Provider : Choose(c, p)
    BY <1>6, <2>1 DEF UsesConfig
  <2>2. CASE UNCHANGED <<chatAt, chosen, expected>>
    <3>1. bill' = bill
      BY <1>7 DEF Visit, FetchDefault
    <3> QED
      BY <1>5, <2>2, <3>1
  <2>3. CASE ChatGoto(c, "404")
    BY <1>2, <2>3 DEF ChatGoto, UsesConfig
  <2> QED
    BY <1>2, <1>7, <2>1, <2>2, <2>3 DEF Visit, FetchDefault, Typed, TypeOK
<1>8. CASE BeginRange(c) \/ EndRange(c) \/ ReadDefault(c)
  BY <1>2, <1>8 DEF BeginRange, EndRange, ReadDefault, ChatGoto, UsesConfig
<1>9. CASE Estimate(c)
  <2>1. /\ chatAt[c] = "price" /\ chatAt'[c] = "send"
        /\ bill'[c].price = heap[chosen[c]].price
        /\ chosen' = chosen /\ expected' = expected
    BY <1>2, <1>9 DEF Estimate, ChatGoto
  <2> QED
    BY <1>5, <2>1 DEF UsesConfig
<1>10. CASE Send(c)
  <2>1. /\ chatAt[c] = "send" /\ chatAt'[c] = "sent"
        /\ bill'[c] = [bill[c] EXCEPT !.url = heap[chosen[c]].url]
        /\ expected' = expected
    BY <1>2, <1>10 DEF Send, ChatGoto
  <2>2. bill'[c] = [price |-> bill[c].price, url |-> heap[chosen[c]].url]
    BY <1>2, <2>1
  <2> QED
    BY <1>5, <2>1, <2>2 DEF UsesConfig
<1> QED
  BY <1>7, <1>8, <1>9, <1>10 DEF Serve

LEMMA RestartKeeps ==
  ASSUME Keeps, Restart
  PROVE  Keeps'
<1>1. /\ UNCHANGED <<chosen, bill, expected, edited>>
      /\ \A c \in Chat : /\ chatAt'[c] \notin UsesConfig
                         /\ chatAt'[c] = "sent" => chatAt[c] = "sent"
  BY DEF Restart, UsesConfig, InLookup
<1> QED
  BY <1>1 DEF Keeps, UsesConfig

-----------------------------------------------------------------------------
LEMMA Step == IInv /\ [Next]_pvars => IInv'
<1> SUFFICES ASSUME IInv, [Next]_pvars PROVE IInv'
  OBVIOUS
<1>1. Typed /\ Fresh /\ Keeps
  BY DEF IInv
<1>2. Typed'
  BY <1>1, NextTyped
<1>3. CASE UNCHANGED pvars
  <2>1. Untouched /\ UNCHANGED <<heap, chatAt, bill, expected, edited>>
    BY <1>3 DEF pvars, router, store, admins, chats, Untouched
  <2> QED
    BY <1>1, <1>2, <2>1, UntouchedFresh, SameKeeps DEF IInv, Untouched
<1> QED
  BY <1>1, <1>2, <1>3, AdministerFresh, AdministerKeeps, ServeFresh, ServeKeeps,
     RestartFresh, RestartKeeps DEF Next, IInv

LEMMA Inductive == Spec => []IInv
BY InitTyped, Step, PTL DEF Spec

\* Whatever administrators and chat requests do, in whatever order, the
\* variables keep their types; above all a request that is about to price or
\* send has a configuration (handler.go never uses a nil providerConfig).
THEOREM TypeCorrect == Spec => []TypeOK
<1>1. IInv => TypeOK
  BY DEF IInv, Typed
<1> QED
  BY <1>1, Inductive, PTL

\* For any number of administrators, chat requests and providers: a request is
\* priced and sent by the configuration it chose unless a PUT wrote to it.
THEOREM PricedAsSentHolds == Spec => []PricedAsSent
<1>1. IInv => PricedAsSent
  BY DEF IInv, Keeps, PricedAsSent
<1> QED
  BY <1>1, Inductive, PTL

-----------------------------------------------------------------------------
(***************************************************************************)
(* The lookup.                                                             *)
(***************************************************************************)
Candidates(c) == {p \in Provider : Lists(p, c)}

\* RoutedRight, for one request.
Routed(c) ==
  /\ chatAt[c] \in UsesConfig \union {"sent"} =>
       IF expected[c].candidates # {}
       THEN expected[c].from \in expected[c].candidates
       ELSE expected[c].from = expected[c].fallback
  /\ chatAt[c] = "404" => expected[c].candidates = {} /\ expected[c].fallback = None

\* A lookup that nothing has changed under is at a router like the one it began
\* with, has not passed a provider that lists the model, and comes to the
\* default only when there is none.
Looks(c) ==
  ~raced[c] =>
    /\ chatAt[c] \in InLookup =>
         expected[c].candidates = Candidates(c) /\ expected[c].fallback = Default
    /\ chatAt[c] = "range" => expected[c].candidates \subseteq ahead[c]
    /\ chatAt[c] \in {"default", "fetch"} => expected[c].candidates = {}
    /\ chatAt[c] = "fetch" => ahead[c] = {defaultProvider} /\ defaultProvider # None
    /\ Routed(c)

Lookups == \A c \in Chat : Looks(c)

LEMMA InitLooks == Init => Lookups
BY DEF Init, Lookups, Looks, Routed, InLookup, UsesConfig

\* A lookup stays right under steps that leave it and its router alone.
LEMMA SameLooks ==
  ASSUME NEW c \in Chat, Looks(c), raced'[c] = raced[c], chatAt'[c] = chatAt[c],
         ahead'[c] = ahead[c], expected'[c] = expected[c],
         UNCHANGED <<providers, defaultProvider>>, Candidates(c)' = Candidates(c)
  PROVE  Looks(c)'
BY DEF Looks, Routed, Default, Registered

\* A lookup that is over, or over now, depends on nothing but its result.
LEMMA LookedUp ==
  ASSUME NEW c \in Chat, Looks(c), raced[c] => raced'[c], expected'[c] = expected[c],
         chatAt'[c] = chatAt[c] \/ chatAt'[c] = "lost",
         ~raced'[c] => chatAt'[c] \notin InLookup
  PROVE  Looks(c)'
BY DEF Looks, Routed, InLookup, UsesConfig

\* Whoever changes the router tells the lookups that are under way.
LEMMA ChangesLooks ==
  ASSUME Lookups, RouterChanges, UNCHANGED <<chatAt, expected>>
  PROVE  Lookups'
<1> SUFFICES ASSUME NEW c \in Chat PROVE Looks(c)'
  BY DEF Lookups
<1>1. raced'[c] <=> raced[c] \/ chatAt[c] \in InLookup
  BY Zenon DEF RouterChanges
<1> QED
  BY <1>1, LookedUp DEF Lookups

\* The router is the same to all.
LEMMA StillLooks ==
  ASSUME Lookups, UNCHANGED <<heap, providers, defaultProvider, chatAt, ahead, expected, raced>>
  PROVE  Lookups'
<1> SUFFICES ASSUME NEW c \in Chat PROVE Looks(c)'
  BY DEF Lookups
<1>1. Candidates(c)' = Candidates(c)
  BY DEF Candidates, Lists
<1> QED
  BY <1>1, SameLooks DEF Lookups

LEMMA AdministerLooks ==
  ASSUME Typed, Fresh, Lookups, NEW a \in Admin, Administer(a)
  PROVE  Lookups'
<1>1. ASSUME NEW q \in Request(received + 1), Receive(a, q) PROVE Lookups'
  <2>1. /\ received \in 0 .. MaxRequests /\ received < MaxRequests
        /\ heap \in [Object -> Config] /\ providers \in [Provider -> Object \union {None}]
    BY <1>1 DEF Typed, TypeOK, Receive
  <2>2. q.number = received + 1 /\ received + 1 \in received + 1 .. MaxRequests
    BY <2>1, NextRequest, BoundAssumption
  <2>3. \A p \in Provider : providers[p] # q.number
    BY <2>2 DEF Fresh
  <2>4. /\ UNCHANGED <<providers, defaultProvider, chatAt, ahead, expected, raced>>
        /\ \/ heap' = heap
           \/ heap' = [heap EXCEPT ![q.number] = heap'[q.number]]
    BY <1>1, <2>1, <2>2 DEF Receive, chats, Object
  <2> SUFFICES ASSUME NEW c \in Chat PROVE Looks(c)'
    BY DEF Lookups
  <2>5. \A p \in Provider : providers[p] # None => heap'[providers[p]] = heap[providers[p]]
    BY <2>1, <2>3, <2>4
  <2>6. Candidates(c)' = Candidates(c)
    BY <2>4, <2>5 DEF Candidates, Lists
  <2> QED
    BY <2>4, <2>6, SameLooks DEF Lookups
<1>2. CASE PutURL(a) \/ PutModels(a) \/ PutPrice(a)
  <2>1. UNCHANGED <<providers, defaultProvider, chatAt, ahead, expected>>
    BY <1>2 DEF PutURL, PutModels, PutPrice, Assign
  <2>2. RouterChanges \/ UNCHANGED <<heap, raced>>
    BY <1>2 DEF PutURL, PutModels, PutPrice, Assign
  <2> QED
    BY <2>1, <2>2, ChangesLooks, StillLooks
<1>3. CASE AddProvider(a) \/ SetDefaultProvider(a)
  BY <1>3, ChangesLooks DEF AddProvider, SetDefaultProvider
<1>4. CASE RemoveProvider(a)
  BY <1>4, ChangesLooks, StillLooks DEF RemoveProvider
<1>5. CASE SaveProvider(a) \/ ClearOldFlag(a) \/ SetNewFlag(a) \/ DeleteRow(a) \/ Answer(a)
  BY <1>5, StillLooks
  DEF SaveProvider, ClearOldFlag, SetNewFlag, DeleteRow, Answer, router, chats
<1> QED
  BY <1>1, <1>2, <1>3, <1>4, <1>5 DEF Administer

LEMMA ServeLooks ==
  ASSUME Typed, Lookups, NEW c \in Chat, Serve(c)
  PROVE  Lookups'
<1>1. /\ chatAt \in [Chat -> {"idle", "sent", "404", "lost"} \union InLookup \union UsesConfig]
      /\ ahead \in [Chat -> SUBSET Provider]
      /\ expected \in [Chat -> Expected] /\ expected[c] \in Expected
      /\ defaultProvider \in Provider \union {None}
      /\ Registered \subseteq Provider /\ None \notin Registered
  BY NoneIsNothing DEF Typed, TypeOK, Expected, Registered
<1>2. UNCHANGED <<heap, providers, defaultProvider, raced>>
  BY DEF Serve, BeginRange, Visit, EndRange, ReadDefault, FetchDefault,
         Estimate, Send, router
<1>3. \A d \in Chat : Candidates(d)' = Candidates(d)
  BY <1>2 DEF Candidates, Lists
<1>4. ASSUME NEW d \in Chat, d # c PROVE Looks(d)'
  <2>1. chatAt'[d] = chatAt[d] /\ ahead'[d] = ahead[d] /\ expected'[d] = expected[d]
    BY <1>1, <1>4 DEF Serve, BeginRange, Visit, EndRange, ReadDefault, FetchDefault,
              Estimate, Send, Choose, ChatGoto
  <2> QED
    BY <1>2, <1>3, <2>1, SameLooks DEF Lookups
<1>5. SUFFICES ASSUME ~raced[c] PROVE Looks(c)'
  BY <1>2, <1>4 DEF Lookups, Looks
<1>6. Looks(c) /\ Candidates(c) \subseteq Registered /\ Default' = Default
  BY <1>2 DEF Lookups, Candidates, Lists, Registered, Default
<1>7. CASE BeginRange(c)
  <2>1. /\ chatAt'[c] = "range" /\ ahead'[c] = Registered
        /\ expected'[c].candidates = Candidates(c) /\ expected'[c].fallback = Default
    BY <1>1, <1>7 DEF BeginRange, ChatGoto, Expected, Candidates, Default
  <2> QED
    BY <1>3, <1>6, <2>1 DEF Looks, Routed, InLookup, UsesConfig
<1>8. ASSUME NEW p \in Provider, Choose(c, p)
      PROVE  /\ chatAt'[c] = "price" /\ expected'[c].from = p
             /\ expected'[c].candidates = expected[c].candidates
             /\ expected'[c].fallback = expected[c].fallback
  BY <1>1, <1>8 DEF Choose, ChatGoto, Expected
<1>9. ASSUME NEW p \in Provider, Visit(c, p) PROVE Looks(c)'
  <2>1. expected[c].candidates = Candidates(c) /\ expected[c].candidates \subseteq ahead[c]
    BY <1>5, <1>6, <1>9 DEF Visit, Looks, InLookup
  <2>2. CASE Lists(p, c)
    <3>1. p \in Candidates(c) /\ Choose(c, p)
      BY <1>9, <2>2 DEF Visit, Candidates
    <3> QED
      BY <1>8, <2>1, <3>1 DEF Looks, Routed, InLookup, UsesConfig
  <2>3. CASE ~Lists(p, c)
    <3>1. p \notin Candidates(c) /\ chatAt' = chatAt /\ expected' = expected
      BY <1>9, <2>3 DEF Visit, Candidates
    <3>2. ahead'[c] = ahead[c] \ {p} /\ chatAt[c] = "range"
      BY <1>1, <1>9, <2>3 DEF Visit
    <3> QED
      BY <1>2, <1>3, <1>5, <1>6, <2>1, <3>1, <3>2 DEF Looks, Routed, InLookup, UsesConfig
  <2> QED
    BY <2>2, <2>3
<1>10. CASE EndRange(c)
  <2>1. /\ chatAt[c] = "range" /\ chatAt'[c] = "default" /\ expected' = expected
        /\ ahead[c] \intersect Registered = {}
    BY <1>1, <1>10 DEF EndRange, ChatGoto
  <2>2. expected[c].candidates = {}
    BY <1>5, <1>6, <2>1 DEF Looks, InLookup
  <2> QED
    BY <1>3, <1>5, <1>6, <2>1, <2>2 DEF Looks, Routed, InLookup, UsesConfig
<1>11. CASE ReadDefault(c)
  <2>1. /\ chatAt[c] = "default" /\ expected' = expected
        /\ expected[c].candidates = {} /\ expected[c].fallback = Default
        /\ expected[c].candidates = Candidates(c)
    BY <1>5, <1>6, <1>11 DEF ReadDefault, Looks, InLookup
  <2>2. CASE defaultProvider = None
    <3>1. chatAt'[c] = "404" /\ Default = None
      BY <1>1, <1>11, <2>2 DEF ReadDefault, ChatGoto, Default
    <3> QED
      BY <2>1, <3>1 DEF Looks, Routed, InLookup, UsesConfig
  <2>3. CASE defaultProvider # None
    <3>1. chatAt'[c] = "fetch" /\ ahead'[c] = {defaultProvider}
      BY <1>1, <1>11, <2>3 DEF ReadDefault, ChatGoto
    <3> QED
      BY <1>2, <1>3, <1>6, <2>1, <2>3, <3>1 DEF Looks, Routed, InLookup, UsesConfig
  <2> QED
    BY <2>2, <2>3
<1>12. CASE FetchDefault(c)
  <2>1. /\ chatAt[c] = "fetch" /\ ahead[c] = {defaultProvider}
        /\ expected[c].candidates = {} /\ expected[c].fallback = Default
        /\ defaultProvider \in Provider
    BY <1>1, <1>5, <1>6, <1>12 DEF FetchDefault, Looks, InLookup
  <2>2. CASE defaultProvider \in Registered
    <3>1. Choose(c, defaultProvider) /\ Default = defaultProvider
      BY <1>12, <2>1, <2>2 DEF FetchDefault, Default
    <3> QED
      BY <1>8, <2>1, <3>1 DEF Looks, Routed, InLookup, UsesConfig
  <2>3. CASE defaultProvider \notin Registered
    <3>1. chatAt'[c] = "404" /\ expected' = expected /\ Default = None
      BY <1>1, <1>12, <2>1, <2>3 DEF FetchDefault, ChatGoto, Default
    <3> QED
      BY <2>1, <3>1 DEF Looks, Routed, InLookup, UsesConfig
  <2> QED
    BY <2>2, <2>3
<1>13. CASE Estimate(c) \/ Send(c)
  <2>1. /\ chatAt[c] \in UsesConfig /\ chatAt'[c] \in {"send", "sent"}
        /\ expected' = expected
    BY <1>1, <1>13 DEF Estimate, Send, ChatGoto, UsesConfig
  <2> QED
    BY <1>5, <1>6, <2>1 DEF Looks, Routed, InLookup, UsesConfig
<1> QED
  BY <1>7, <1>9, <1>10, <1>11, <1>12, <1>13 DEF Serve

LEMMA RestartLooks ==
  ASSUME Lookups, Restart
  PROVE  Lookups'
<1> SUFFICES ASSUME NEW c \in Chat PROVE Looks(c)'
  BY DEF Lookups
<1>1. /\ UNCHANGED <<expected, raced>>
      /\ chatAt'[c] = chatAt[c] \/ chatAt'[c] = "lost"
      /\ chatAt'[c] \notin InLookup
  BY DEF Restart, InLookup, UsesConfig
<1> QED
  BY <1>1, LookedUp DEF Lookups

LEMMA StepLooks == IInv /\ Lookups /\ [Next]_pvars => Lookups'
<1> SUFFICES ASSUME IInv, Lookups, [Next]_pvars PROVE Lookups'
  OBVIOUS
<1>1. CASE UNCHANGED pvars
  BY <1>1, StillLooks DEF pvars, router, chats
<1> QED
  BY <1>1, AdministerLooks, ServeLooks, RestartLooks DEF Next, IInv

\* The lookup of handleChatCompletions takes no lock and reads the router in
\* many steps.  Still, for any number of providers, chat requests and
\* administrators, one during which nothing changes finds the right provider,
\* in whatever order the map is ranged over.
THEOREM RoutedRightHolds == Spec => []RoutedRight
<1>1. Init => IInv /\ Lookups
  BY InitTyped, InitLooks
<1>2. IInv /\ Lookups /\ [Next]_pvars => IInv' /\ Lookups'
  BY Step, StepLooks
<1>3. Lookups => RoutedRight
  BY DEF Lookups, Looks, Routed, RoutedRight
<1> QED
  BY <1>1, <1>2, <1>3, PTL DEF Spec

-----------------------------------------------------------------------------
(***************************************************************************)
(* The store follows the router.                                           *)
(*                                                                         *)
(* Administrators come one after the other here; two at once may leave two *)
(* rows flagged.  In the middle of a request the store lags behind, and the *)
(* process may end there: Stage says by how much at each place, and that it *)
(* never holds two defaults, so that what a new process loads is what the  *)
(* store holds.  A price has been rounded when it is read back, and is   *)
(* written again as it was: Columns says so.                               *)
(***************************************************************************)
InTurn ==
  \A a, b \in Admin : adminAt[a] # "idle" /\ adminAt[b] # "idle" => a = b

Agrees(p) ==
  IF p \in Registered THEN rows[p] # None /\ rows[p].config = Kept(heap[providers[p]])
  ELSE rows[p] = None

\* No row but that of d is flagged, and that one is.
FlaggedOnly(d) == \A p \in Provider : rows[p] # None => (rows[p].isDefault <=> p = d)

AllAgree == \A p \in Provider : Agrees(p)
InStep == AllAgree /\ FlaggedOnly(defaultProvider)

\* What holds of the store while a is at each place of its request.
Stage(a) ==
  LET others == {p \in Provider : p # Name(a)}
  IN  /\ adminAt[a] \in {"set", "remove", "answer"} => InStep
      /\ adminAt[a] \in {"put url", "put rest of url", "put models", "put price",
                         "add", "save"} =>
           /\ \A p \in others : Agrees(p) /\ providers[p] # target[a]
           /\ FlaggedOnly(defaultProvider)
      /\ adminAt[a] \in {"put url", "put rest of url", "put models", "put price",
                         "save"} => providers[Name(a)] = target[a]
      /\ adminAt[a] = "delete" =>
           /\ Name(a) \notin Registered /\ defaultProvider # Name(a)
           /\ \A p \in others : /\ Agrees(p)
                                /\ rows[p] # None => (rows[p].isDefault <=> p = defaultProvider)
      /\ adminAt[a] \in {"clear read", "clear save"} =>
           AllAgree /\ FlaggedOnly(oldDefault[a]) /\ defaultProvider = Name(a)
      /\ adminAt[a] = "clear save" => fetched[a] = rows[oldDefault[a]]
      /\ adminAt[a] \in {"flag read", "flag save"} =>
           AllAgree /\ FlaggedOnly(None) /\ defaultProvider = Name(a)
      /\ adminAt[a] = "flag save" => fetched[a] = rows[Name(a)]

\* Two names never share a configuration, and two rows are never flagged.
NotShared ==
  \A p, q \in Provider : providers[p] = providers[q] /\ p \in Registered => p = q
OneFlag == \A p, q \in Flagged(rows) : p = q

Columns == \A p \in Provider : rows[p] # None => Kept(rows[p].config) = rows[p].config

Follows ==
  ~erred =>
    /\ NotShared /\ OneFlag
    /\ AdminsIdle => InStep
    /\ \A a \in Admin : Stage(a)

LEMMA InitColumns == ProviderBackend = "postgres" /\ Init => Columns
<1> SUFFICES ASSUME ProviderBackend = "postgres", Init,
                    NEW p \in Provider, rows[p] # None
             PROVE  Kept(rows[p].config) = rows[p].config
  BY DEF Columns
<1>1. Configured(p) # None
  BY DEF Init
<1> QED
  BY <1>1, FirstRow

\* What a row keeps fits its columns, whoever writes it and in whatever order.
LEMMA StepColumns ==
  ASSUME IInv, Columns, [Next]_pvars
  PROVE  Columns'
<1>1. /\ rows \in [Provider -> Row \union {None}] /\ erred \in BOOLEAN
      /\ heap \in [Object -> Config]
  BY DEF IInv, Typed, TypeOK
<1>2. CASE rows' = rows
  BY <1>2 DEF Columns
<1>3. ASSUME NEW a \in Admin, NEW name \in Provider, NEW row \in Row, NEW then,
             Put(a, name, row, then)
      PROVE  Columns'
  <2>1. CASE Fits(row) /\ rows' = [rows EXCEPT ![name] = Written(row)]
    BY <1>1, <2>1, WrittenRow DEF Columns
  <2> QED
    BY <1>1, <1>2, <1>3, <2>1, PutFacts
<1>4. ASSUME NEW a \in Admin, SaveProvider(a) PROVE Columns'
  <2>1. Name(a) \in Provider /\ target[a] \in Object
    BY <1>4, RequestParts DEF IInv, Typed, Places, InHand, SaveProvider, Name
  <2>2. NewRow(a) \in Row
    BY <1>1, <2>1 DEF NewRow, Row
  <2> QED
    BY <1>3, <1>4, <2>1, <2>2 DEF SaveProvider
<1>5. ASSUME NEW a \in Admin, ClearOldFlag(a) PROVE Columns'
  <2>1. CASE adminAt[a] = "clear read"
    BY <1>2, <1>5, <2>1 DEF ClearOldFlag, Fetch
  <2>2. CASE adminAt[a] = "clear save"
    <3>1. oldDefault[a] \in Provider /\ fetched[a] \in Row
      BY <2>2 DEF IInv, Typed, Places, InHand
    <3>2. [fetched[a] EXCEPT !.isDefault = FALSE] \in Row
      BY <3>1 DEF Row
    <3> QED
      BY <1>3, <1>5, <2>2, <3>1, <3>2 DEF ClearOldFlag
  <2> QED
    BY <1>5, <2>1, <2>2 DEF ClearOldFlag
<1>6. ASSUME NEW a \in Admin, SetNewFlag(a) PROVE Columns'
  <2>1. CASE adminAt[a] = "flag read"
    BY <1>2, <1>6, <2>1 DEF SetNewFlag, Fetch
  <2>2. CASE adminAt[a] = "flag save"
    <3>1. Name(a) \in Provider /\ fetched[a] \in Row
      BY <2>2, RequestParts DEF IInv, Typed, Places, InHand, Name
    <3>2. [fetched[a] EXCEPT !.isDefault = TRUE] \in Row
      BY <3>1 DEF Row
    <3> QED
      BY <1>3, <1>6, <2>2, <3>1, <3>2 DEF SetNewFlag
  <2> QED
    BY <1>6, <2>1, <2>2 DEF SetNewFlag
<1>7. ASSUME NEW a \in Admin, DeleteRow(a) PROVE Columns'
  <2>1. rows' = rows \/ rows' = [rows EXCEPT ![Name(a)] = None]
    BY <1>7 DEF DeleteRow, Call
  <2> QED
    BY <1>1, <2>1 DEF Columns
<1>8. ASSUME NEW a \in Admin, Administer(a) PROVE Columns'
  <2>1. CASE \/ \E q \in Request(received + 1) : Receive(a, q)
             \/ PutURL(a) \/ PutModels(a) \/ PutPrice(a) \/ AddProvider(a)
             \/ SetDefaultProvider(a) \/ RemoveProvider(a) \/ Answer(a)
    BY <1>2, <2>1 DEF Receive, PutURL, PutModels, PutPrice, Assign, AddProvider,
       SetDefaultProvider, RemoveProvider, Answer, store
  <2> QED
    BY <1>4, <1>5, <1>6, <1>7, <1>8, <2>1 DEF Administer
<1>9. ASSUME (\E c \in Chat : Serve(c)) \/ Restart \/ UNCHANGED pvars PROVE Columns'
  BY <1>2, <1>9 DEF Serve, BeginRange, Visit, EndRange, ReadDefault, FetchDefault,
     Estimate, Send, Restart, pvars, store
<1> QED
  BY <1>8, <1>9 DEF Next

LEMMA InitFollows == ProviderBackend = "postgres" /\ Init => Follows
<1> SUFFICES ASSUME ProviderBackend = "postgres", Init PROVE Follows
  OBVIOUS
<1>1. /\ \A p \in Provider : rows[p] = None <=> providers[p] = None
      /\ \A p \in Provider : rows[p] # None =>
           /\ providers[p] = p /\ rows[p].config = Kept(heap[p])
           /\ rows[p].isDefault <=> p = defaultProvider
  <2> SUFFICES ASSUME NEW p \in Provider
               PROVE  /\ rows[p] = None <=> providers[p] = None
                      /\ rows[p] # None =>
                           /\ providers[p] = p /\ rows[p].config = Kept(heap[p])
                           /\ rows[p].isDefault <=> p = defaultProvider
    OBVIOUS
  <2>1. CASE Configured(p) = None
    BY <2>1 DEF Init
  <2>2. CASE Configured(p) # None
    <3>1. /\ rows[p] \in Row /\ rows[p].config = Kept(Configured(p))
          /\ rows[p].isDefault = (p = DefaultUpstream)
      BY <2>2, FirstRow
    <3>2. providers[p] = p /\ heap[p] = Configured(p) /\ defaultProvider = DefaultUpstream
      BY <2>2 DEF Init, Object
    <3>3. rows[p] # None /\ providers[p] # None
      BY <3>1, <3>2, NoneIsNothing, NoneIsNoRow
    <3> QED
      BY <3>1, <3>2, <3>3
  <2> QED
    BY <2>1, <2>2
<1>2. InStep
  BY <1>1 DEF InStep, AllAgree, Agrees, FlaggedOnly, Registered
<1>3. NotShared /\ OneFlag
  BY <1>1 DEF NotShared, OneFlag, Flagged, Registered
<1>4. \A a \in Admin : Stage(a)
  BY DEF Init, Stage
<1> QED
  BY <1>2, <1>3, <1>4 DEF Follows

\* As long as administrators come in turn, only the one whose request moves has
\* anything to answer for.
LEMMA Alone ==
  ASSUME Typed, InTurn, InTurn', NEW a \in Admin, NEW where,
         AdminGoto(a, where), adminAt[a] # "idle" \/ where # "idle",
         ~erred' => NotShared' /\ OneFlag' /\ Stage(a)' /\ (where = "idle" => InStep')
  PROVE  Follows'
<1>1. /\ adminAt'[a] = where
      /\ \A b \in Admin : b # a => adminAt'[b] = adminAt[b]
  BY DEF Typed, TypeOK, AdminGoto
<1>2. \A b \in Admin : b # a => adminAt'[b] = "idle"
  BY <1>1 DEF InTurn
<1>3. \A b \in Admin : b # a => Stage(b)'
  BY <1>2 DEF Stage
<1>4. AdminsIdle' => where = "idle"
  BY <1>1 DEF AdminsIdle
<1> QED
  BY <1>3, <1>4 DEF Follows

LEMMA NextNumber ==
  ASSUME NEW n \in 0 .. MaxRequests, n < MaxRequests
  PROVE  n + 1 \in n + 1 .. MaxRequests
BY BoundAssumption

LEMMA ReceiveFollows ==
  ASSUME IInv, Follows, InTurn, InTurn',
         NEW a \in Admin, NEW q \in Request(received + 1), Receive(a, q)
  PROVE  Follows'
<1>1. /\ received \in 0 .. MaxRequests /\ received < MaxRequests
      /\ adminAt \in [Admin -> {"idle"} \union InAdmin]
      /\ request \in [Admin -> Requests \union {None}]
      /\ target \in [Admin -> Object \union {None}]
  BY DEF IInv, Typed, TypeOK, Receive
<1>2. /\ q.number = received + 1 /\ q.number \in 1 .. MaxRequests /\ q.name \in Provider
  BY <1>1, NextRequest, RequestParts
<1>3. PICK where \in {"add", "set", "answer", "put url", "remove"} : AdminGoto(a, where)
  BY DEF Receive
<1>4. /\ UNCHANGED <<providers, defaultProvider, rows, erred>>
      /\ Name(a)' = q.name /\ adminAt'[a] = where
      /\ \A b \in Admin : b # a => adminAt'[b] = adminAt[b]
  BY <1>1, <1>3 DEF Receive, store, Name, AdminGoto
<1>5. AdminsIdle
  <2>1. adminAt[a] = "idle"
    BY DEF Receive
  <2>2. \A b \in Admin : b # a => adminAt'[b] = "idle"
    BY <1>3, <1>4 DEF InTurn
  <2> QED
    BY <1>4, <2>1, <2>2 DEF AdminsIdle
<1>6. ASSUME ~erred' PROVE NotShared' /\ OneFlag' /\ Stage(a)'
  <2>1. NotShared /\ OneFlag /\ InStep
    BY <1>4, <1>5, <1>6 DEF Follows
  <2>2. NotShared' /\ OneFlag'
    BY <1>4, <2>1 DEF NotShared, OneFlag, Flagged, Registered
  <2>3. CASE /\ adminAt'[a] = "add"
             /\ target'[a] = q.number
             /\ heap' = [heap EXCEPT ![q.number] =
                            [url |-> q.number, price |-> q.price, models |-> q.models]]
    <3>1. \A p \in Provider : providers[p] # q.number
      <4>1. q.number \in received + 1 .. MaxRequests
        BY <1>1, <1>2, NextNumber
      <4> QED
        BY <4>1 DEF IInv, Fresh
    <3>2. \A p \in Provider : p \in Registered => heap'[providers[p]] = heap[providers[p]]
      BY <2>3, <3>1 DEF IInv, Typed, TypeOK, Registered
    <3>3. AllAgree'
      BY <1>4, <2>1, <3>2 DEF InStep, AllAgree, Agrees, Registered
    <3>4. FlaggedOnly(defaultProvider)'
      BY <1>4, <2>1 DEF InStep, FlaggedOnly
    <3> QED
      BY <1>4, <2>2, <2>3, <3>1, <3>3, <3>4 DEF Stage, AllAgree
  <2>4. CASE heap' = heap /\ where # "put url" /\ where # "add"
    <3>1. InStep'
      BY <1>4, <2>1, <2>4 DEF InStep, AllAgree, Agrees, FlaggedOnly, Registered
    <3> QED
      BY <1>3, <1>4, <2>2, <2>4, <3>1 DEF Stage
  <2>5. CASE /\ heap' = heap /\ where = "put url" /\ q.name \in Registered
             /\ target'[a] = providers[q.name]
    <3>1. InStep'
      BY <1>4, <2>1, <2>5 DEF InStep, AllAgree, Agrees, FlaggedOnly, Registered
    <3>2. \A p \in Provider : p # q.name => providers[p] # target'[a]
      BY <1>2, <2>1, <2>5 DEF NotShared
    <3> QED
      BY <1>3, <1>4, <2>2, <2>5, <3>1, <3>2 DEF Stage, InStep, AllAgree
  <2> QED
    BY <1>1, <1>4, <2>3, <2>4, <2>5 DEF Receive, AdminGoto
<1> QED
  BY <1>3, <1>6, Alone DEF IInv

LEMMA PutFollows ==
  ASSUME IInv, Follows, InTurn, InTurn', NEW a \in Admin,
         PutURL(a) \/ PutModels(a) \/ PutPrice(a)
  PROVE  Follows'
<1>1. PICK to \in {"put rest of url", "put models", "put price", "add"} : AdminGoto(a, to)
  BY DEF PutURL, PutModels, PutPrice, Assign
<1>2. /\ UNCHANGED <<providers, defaultProvider, rows, erred, request, target>>
      /\ heap' = heap \/ \E config : heap' = [heap EXCEPT ![target[a]] = config]
      /\ adminAt[a] \in {"put url", "put rest of url", "put models", "put price"}
  BY DEF PutURL, PutModels, PutPrice, Assign, store
<1>3. /\ Name(a)' = Name(a) /\ adminAt'[a] = to
  BY <1>1, <1>2 DEF Name, AdminGoto, IInv, Typed, TypeOK
<1>4. ASSUME ~erred' PROVE NotShared' /\ OneFlag' /\ Stage(a)'
  <2>1. /\ NotShared /\ OneFlag
        /\ \A p \in Provider : p # Name(a) => Agrees(p) /\ providers[p] # target[a]
        /\ FlaggedOnly(defaultProvider) /\ providers[Name(a)] = target[a]
    BY <1>2, <1>4 DEF Follows, Stage
  <2>2. \A p \in Provider : p # Name(a) /\ p \in Registered =>
           heap'[providers[p]] = heap[providers[p]]
    BY <1>2, <2>1 DEF IInv, Typed, TypeOK, Registered
  <2>3. \A p \in Provider : p # Name(a) => Agrees(p)'
    BY <1>2, <2>1, <2>2 DEF Agrees, Registered
  <2>4. NotShared' /\ OneFlag' /\ FlaggedOnly(defaultProvider)'
    BY <1>2, <2>1 DEF NotShared, OneFlag, FlaggedOnly, Flagged, Registered
  <2> QED
    BY <1>2, <1>3, <2>1, <2>3, <2>4 DEF Stage
<1> QED
  BY <1>1, <1>2, <1>4, Alone DEF IInv

LEMMA AddFollows ==
  ASSUME IInv, Follows, InTurn, InTurn', ProviderBackend = "postgres",
         NEW a \in Admin, AddProvider(a)
  PROVE  Follows'
<1>1. /\ AdminGoto(a, "save") /\ adminAt[a] = "add"
      /\ providers' = [providers EXCEPT ![Name(a)] = target[a]]
      /\ UNCHANGED <<heap, defaultProvider, rows, erred, request, target>>
  BY DEF AddProvider, HasStore, store
<1>2. /\ target[a] \in Object /\ Name(a) \in Provider
      /\ providers \in [Provider -> Object \union {None}]
      /\ Name(a)' = Name(a) /\ adminAt'[a] = "save"
  BY <1>1, RequestParts DEF IInv, Typed, TypeOK, Places, InHand, Name, AdminGoto
<1>3. /\ providers'[Name(a)] = target[a]
      /\ \A p \in Provider : p # Name(a) => providers'[p] = providers[p]
  BY <1>1, <1>2
<1>4. ASSUME ~erred' PROVE NotShared' /\ OneFlag' /\ Stage(a)'
  <2>1. /\ NotShared /\ OneFlag
        /\ \A p \in Provider : p # Name(a) => Agrees(p) /\ providers[p] # target[a]
        /\ FlaggedOnly(defaultProvider)
    BY <1>1, <1>4 DEF Follows, Stage
  <2>2. \A p \in Provider : p # Name(a) => Agrees(p)' /\ providers'[p] # target[a]
    BY <1>1, <1>3, <2>1 DEF Agrees, Registered
  <2>3. NotShared'
    BY <1>3, <2>1 DEF NotShared, Registered
  <2>4. OneFlag' /\ FlaggedOnly(defaultProvider)'
    BY <1>1, <2>1 DEF OneFlag, FlaggedOnly, Flagged
  <2> QED
    BY <1>1, <1>2, <1>3, <2>2, <2>3, <2>4 DEF Stage
<1> QED
  BY <1>1, <1>4, Alone DEF IInv

LEMMA SaveFollows ==
  ASSUME IInv, Follows, InTurn, InTurn', NEW a \in Admin, SaveProvider(a)
  PROVE  Follows'
<1>1. PICK where \in {"set", "answer"} : AdminGoto(a, where)
  BY DEF SaveProvider, Put, Call, AfterAdd
<1>2. /\ adminAt[a] = "save"
      /\ UNCHANGED <<heap, providers, defaultProvider, request, target>>
  BY DEF SaveProvider, router
<1>3. /\ target[a] \in Object /\ Name(a) \in Provider /\ heap[target[a]] \in Config
      /\ rows \in [Provider -> Row \union {None}]
      /\ Name(a)' = Name(a) /\ adminAt'[a] = where
  BY <1>1, <1>2, RequestParts DEF IInv, Typed, TypeOK, Places, InHand, Name, AdminGoto
<1>4. ASSUME ~erred' PROVE NotShared' /\ OneFlag' /\ Stage(a)'
  <2>1. NewRow(a) \in Row
    BY <1>3 DEF NewRow, Row
  <2>2. /\ rows' = [rows EXCEPT ![Name(a)] = Written(NewRow(a))] /\ erred' = erred
        /\ Fits(NewRow(a))
    BY <1>3, <1>4, <2>1, PutFacts DEF SaveProvider, IInv, Typed, TypeOK
  <2>3. /\ NotShared
        /\ \A p \in Provider : p # Name(a) => Agrees(p)
        /\ FlaggedOnly(defaultProvider) /\ providers[Name(a)] = target[a]
    BY <1>2, <1>4, <2>2 DEF Follows, Stage
  <2>4. /\ rows'[Name(a)] = Written(NewRow(a))
        /\ \A p \in Provider : p # Name(a) => rows'[p] = rows[p]
    BY <1>3, <2>2
  <2>5. /\ Written(NewRow(a)) # None
        /\ Written(NewRow(a)).config = Kept(heap[target[a]])
        /\ Written(NewRow(a)).isDefault = (Name(a) = defaultProvider)
    <3>1. /\ NewRow(a).config = heap[target[a]]
          /\ NewRow(a).isDefault = (Name(a) = defaultProvider)
      BY DEF NewRow
    <3> QED
      BY <2>1, <2>2, <3>1, WrittenRow, NoneIsNoRow
  <2>6. Name(a) \in Registered
    BY <1>3, <2>3, NoneIsNothing DEF Registered
  <2>7. AllAgree'
    BY <1>2, <2>3, <2>4, <2>5, <2>6 DEF AllAgree, Agrees, Registered
  <2>8. FlaggedOnly(defaultProvider)'
    BY <1>2, <2>3, <2>4, <2>5 DEF FlaggedOnly
  <2>9. NotShared' /\ OneFlag'
    BY <1>2, <2>3, <2>8 DEF NotShared, OneFlag, FlaggedOnly, Flagged, Registered
  <2> QED
    BY <1>3, <2>7, <2>8, <2>9 DEF Stage, InStep
<1> QED
  BY <1>1, <1>2, <1>4, Alone DEF IInv

LEMMA SetFollows ==
  ASSUME IInv, Follows, InTurn, InTurn', ProviderBackend = "postgres",
         NEW a \in Admin, SetDefaultProvider(a)
  PROVE  Follows'
<1>1. PICK where \in {"clear read", "flag read"} :
        /\ AdminGoto(a, where)
        /\ where = "flag read" => defaultProvider = None
  BY DEF SetDefaultProvider, HasStore
<1>2. /\ adminAt[a] = "set" /\ defaultProvider' = Name(a)
      /\ UNCHANGED <<heap, providers, rows, erred, request>>
  BY DEF SetDefaultProvider, store
<1>3. /\ Name(a)' = Name(a) /\ adminAt'[a] = where /\ oldDefault'[a] = defaultProvider
  BY <1>1, <1>2 DEF IInv, Typed, TypeOK, Name, AdminGoto, SetDefaultProvider
<1>4. ASSUME ~erred' PROVE NotShared' /\ OneFlag' /\ Stage(a)'
  <2>1. NotShared /\ OneFlag /\ AllAgree /\ FlaggedOnly(defaultProvider)
    BY <1>2, <1>4 DEF Follows, Stage, InStep
  <2>2. NotShared' /\ OneFlag' /\ AllAgree'
    BY <1>2, <2>1 DEF NotShared, OneFlag, AllAgree, Agrees, Flagged, Registered
  <2>3. where = "clear read" => FlaggedOnly(oldDefault[a])'
    BY <1>2, <1>3, <2>1 DEF FlaggedOnly
  <2>4. where = "flag read" => FlaggedOnly(None)'
    BY <1>1, <1>2, <2>1 DEF FlaggedOnly
  <2> QED
    BY <1>1, <1>2, <1>3, <2>2, <2>3, <2>4 DEF Stage
<1> QED
  BY <1>1, <1>2, <1>4, Alone DEF IInv

LEMMA ClearFollows ==
  ASSUME IInv, Columns, Follows, InTurn, InTurn', NEW a \in Admin, ClearOldFlag(a)
  PROVE  Follows'
<1>1. PICK where \in {"clear save", "flag read"} : AdminGoto(a, where)
  BY DEF ClearOldFlag, Fetch, Put, Call
<1>2. /\ adminAt[a] \in {"clear read", "clear save"}
      /\ UNCHANGED <<heap, providers, defaultProvider, request, oldDefault>>
  BY DEF ClearOldFlag, router
<1>3. /\ oldDefault[a] \in Provider /\ Name(a)' = Name(a) /\ adminAt'[a] = where
      /\ rows \in [Provider -> Row \union {None}]
      /\ fetched \in [Admin -> Row \union {None}]
      /\ adminAt[a] = "clear save" => fetched[a] \in Row
  BY <1>1, <1>2 DEF IInv, Typed, TypeOK, Places, InHand, Name, AdminGoto
<1>4. ASSUME ~erred' PROVE NotShared' /\ OneFlag' /\ Stage(a)'
  <2>0. ~erred
    BY <1>4 DEF ClearOldFlag, Fetch, Put, Call
  <2>1. /\ NotShared /\ OneFlag /\ AllAgree /\ FlaggedOnly(oldDefault[a])
        /\ defaultProvider = Name(a)
        /\ adminAt[a] = "clear save" => fetched[a] = rows[oldDefault[a]]
    BY <1>2, <2>0 DEF Follows, Stage
  <2>2. NotShared'
    BY <1>2, <2>1 DEF NotShared, Registered
  <2>3. CASE adminAt[a] = "clear read" /\ where = "flag read"
    <3>1. rows[oldDefault[a]] = None /\ rows' = rows
      BY <1>1, <1>4, <1>3, <2>3 DEF ClearOldFlag, Fetch, Put, Call, AdminGoto, IInv, Typed, TypeOK
    <3>2. AllAgree' /\ OneFlag'
      BY <1>2, <2>1, <3>1 DEF AllAgree, Agrees, OneFlag, Flagged, Registered
    <3>3. FlaggedOnly(None)'
      BY <2>1, <3>1, NoneIsNothing DEF FlaggedOnly
    <3> QED
      BY <1>2, <1>3, <2>1, <2>2, <2>3, <3>2, <3>3 DEF Stage
  <2>4. CASE adminAt[a] = "clear read" /\ where = "clear save"
    <3>1. rows' = rows /\ fetched'[a] = rows[oldDefault[a]]
      BY <1>1, <1>3, <1>4, <2>4 DEF ClearOldFlag, Fetch, Put, Call, AdminGoto, IInv, Typed, TypeOK
    <3>2. AllAgree' /\ OneFlag' /\ FlaggedOnly(oldDefault[a])'
      BY <1>2, <2>1, <3>1
      DEF AllAgree, Agrees, OneFlag, Flagged, Registered, FlaggedOnly
    <3> QED
      BY <1>2, <1>3, <2>1, <2>2, <2>4, <3>1, <3>2 DEF Stage
  <2>5. CASE adminAt[a] = "clear save"
    <3> DEFINE row == [fetched[a] EXCEPT !.isDefault = FALSE]
               cleared == Written(row)
    <3>1. /\ fetched[a] \in Row /\ fetched[a] = rows[oldDefault[a]]
          /\ rows[oldDefault[a]] # None
      BY <1>3, <2>1, <2>5, NoneIsNoRow
    <3>2. row \in Row /\ row.config = fetched[a].config /\ row.isDefault = FALSE
      BY <3>1 DEF Row
    <3>3. Put(a, oldDefault[a], row, "flag read")
      BY <2>5 DEF ClearOldFlag
    <3> HIDE DEF row
    <3>4. rows' = [rows EXCEPT ![oldDefault[a]] = cleared] /\ Fits(row) /\ where = "flag read"
      <4>1. oldDefault[a] \in Provider /\ erred \in BOOLEAN /\ adminAt' = [adminAt EXCEPT ![a] = where]
            /\ where = adminAt'[a]
        BY <1>1, <1>3, <2>5 DEF AdminGoto, IInv, Typed, TypeOK
      <4>2. row \in Row /\ rows \in [Provider -> Row \union {None}]
        BY <1>3, <3>2
      <4>3. /\ AdminGoto(a, "flag read")
            /\ \/ rows' = rows /\ erred'
               \/ /\ Fits(row) /\ erred' = erred
                  /\ rows' = [rows EXCEPT ![oldDefault[a]] = cleared]
        BY <3>3, <4>1, <4>2, PutFacts
      <4>4. rows' = [rows EXCEPT ![oldDefault[a]] = cleared] /\ Fits(row)
        BY <1>4, <4>3, <3>3 DEF Put, Call
      <4> QED
        BY <1>3, <4>1, <4>3, <4>4 DEF AdminGoto, IInv, Typed, TypeOK
    <3>5. cleared # None /\ cleared.config = fetched[a].config /\ ~cleared.isDefault
      <4>1. Kept(row.config) = row.config
        BY <1>3, <3>2, <3>1 DEF Columns
      <4> QED
        BY <3>2, <3>4, <4>1, WrittenRow, NoneIsNoRow
    <3>6. /\ rows'[oldDefault[a]] = cleared
          /\ \A p \in Provider : p # oldDefault[a] => rows'[p] = rows[p]
      BY <1>3, <3>4
    <3> HIDE DEF cleared
    <3>7. AllAgree'
      BY <1>2, <1>3, <2>1, <3>1, <3>5, <3>6 DEF AllAgree, Agrees, Registered
    <3>8. FlaggedOnly(None)'
      BY <2>1, <3>5, <3>6, NoneIsNothing DEF FlaggedOnly
    <3>9. OneFlag'
      BY <3>8, NoneIsNothing DEF OneFlag, Flagged, FlaggedOnly
    <3> QED
      BY <1>2, <1>3, <2>1, <2>2, <3>4, <3>7, <3>8, <3>9 DEF Stage
  <2> QED
    BY <1>1, <1>2, <2>3, <2>4, <2>5
<1> QED
  BY <1>1, <1>2, <1>4, Alone DEF IInv

LEMMA FlagFollows ==
  ASSUME IInv, Columns, Follows, InTurn, InTurn', NEW a \in Admin, SetNewFlag(a)
  PROVE  Follows'
<1>1. PICK where \in {"flag save", "answer"} : AdminGoto(a, where)
  BY DEF SetNewFlag, Fetch, Put, Call
<1>2. /\ adminAt[a] \in {"flag read", "flag save"}
      /\ UNCHANGED <<heap, providers, defaultProvider, request>>
  BY DEF SetNewFlag, router
<1>3. /\ Name(a) \in Provider /\ Name(a)' = Name(a) /\ adminAt'[a] = where
      /\ rows \in [Provider -> Row \union {None}]
      /\ fetched \in [Admin -> Row \union {None}]
      /\ adminAt[a] = "flag save" => fetched[a] \in Row
  BY <1>1, <1>2, RequestParts DEF IInv, Typed, TypeOK, Places, InHand, Name, AdminGoto
<1>4. ASSUME ~erred' PROVE NotShared' /\ OneFlag' /\ Stage(a)'
  <2>0. ~erred
    BY <1>4 DEF SetNewFlag, Fetch, Put, Call
  <2>1. /\ NotShared /\ OneFlag /\ AllAgree /\ FlaggedOnly(None)
        /\ defaultProvider = Name(a)
        /\ adminAt[a] = "flag save" => fetched[a] = rows[Name(a)]
    BY <1>2, <2>0 DEF Follows, Stage
  <2>2. NotShared'
    BY <1>2, <2>1 DEF NotShared, Registered
  <2>3. CASE adminAt[a] = "flag read" /\ where = "answer"
    <3>1. rows[Name(a)] = None /\ rows' = rows
      BY <1>1, <1>3, <1>4, <2>3 DEF SetNewFlag, Fetch, Put, Call, AdminGoto, IInv, Typed, TypeOK
    <3>2. AllAgree' /\ OneFlag'
      BY <1>2, <2>1, <3>1 DEF AllAgree, Agrees, OneFlag, Flagged, Registered
    <3>3. FlaggedOnly(defaultProvider)'
      BY <1>2, <2>1, <3>1, NoneIsNothing DEF FlaggedOnly
    <3> QED
      BY <1>2, <1>3, <2>2, <2>3, <3>2, <3>3 DEF Stage, InStep
  <2>4. CASE adminAt[a] = "flag read" /\ where = "flag save"
    <3>1. rows' = rows /\ fetched'[a] = rows[Name(a)]
      BY <1>1, <1>3, <1>4, <2>4 DEF SetNewFlag, Fetch, Put, Call, AdminGoto, IInv, Typed, TypeOK
    <3>2. AllAgree' /\ OneFlag' /\ FlaggedOnly(None)'
      BY <1>2, <2>1, <3>1
      DEF AllAgree, Agrees, OneFlag, Flagged, Registered, FlaggedOnly
    <3> QED
      BY <1>2, <1>3, <2>1, <2>2, <2>4, <3>1, <3>2 DEF Stage
  <2>5. CASE adminAt[a] = "flag save"
    <3> DEFINE row == [fetched[a] EXCEPT !.isDefault = TRUE]
               flagged == Written(row)
    <3>1. /\ fetched[a] \in Row /\ fetched[a] = rows[Name(a)]
          /\ rows[Name(a)] # None
      BY <1>3, <2>1, <2>5, NoneIsNoRow
    <3>2. row \in Row /\ row.config = fetched[a].config /\ row.isDefault = TRUE
      BY <3>1 DEF Row
    <3>3. Put(a, Name(a), row, "answer")
      BY <2>5 DEF SetNewFlag
    <3> HIDE DEF row
    <3>4. rows' = [rows EXCEPT ![Name(a)] = flagged] /\ Fits(row) /\ where = "answer"
      <4>1. Name(a) \in Provider /\ erred \in BOOLEAN /\ adminAt' = [adminAt EXCEPT ![a] = where]
            /\ where = adminAt'[a]
        BY <1>1, <1>3, <2>5 DEF AdminGoto, IInv, Typed, TypeOK
      <4>2. row \in Row /\ rows \in [Provider -> Row \union {None}]
        BY <1>3, <3>2
      <4>3. /\ AdminGoto(a, "answer")
            /\ \/ rows' = rows /\ erred'
               \/ /\ Fits(row) /\ erred' = erred
                  /\ rows' = [rows EXCEPT ![Name(a)] = flagged]
        BY <3>3, <4>1, <4>2, PutFacts
      <4>4. rows' = [rows EXCEPT ![Name(a)] = flagged] /\ Fits(row)
        BY <1>4, <4>3, <3>3 DEF Put, Call
      <4> QED
        BY <1>3, <4>1, <4>3, <4>4 DEF AdminGoto, IInv, Typed, TypeOK
    <3>5. flagged # None /\ flagged.config = fetched[a].config /\ flagged.isDefault
      <4>1. Kept(row.config) = row.config
        BY <1>3, <3>2, <3>1 DEF Columns
      <4> QED
        BY <3>2, <3>4, <4>1, WrittenRow, NoneIsNoRow
    <3>6. /\ rows'[Name(a)] = flagged
          /\ \A p \in Provider : p # Name(a) => rows'[p] = rows[p]
      BY <1>3, <3>4
    <3> HIDE DEF flagged
    <3>7. AllAgree'
      BY <1>2, <1>3, <2>1, <3>1, <3>5, <3>6 DEF AllAgree, Agrees, Registered
    <3>8. FlaggedOnly(defaultProvider)'
      BY <1>2, <2>1, <3>5, <3>6, NoneIsNothing DEF FlaggedOnly
    <3>9. OneFlag'
      BY <3>8 DEF OneFlag, Flagged, FlaggedOnly
    <3> QED
      BY <1>2, <1>3, <2>2, <3>4, <3>7, <3>8, <3>9 DEF Stage, InStep
  <2> QED
    BY <1>1, <1>2, <2>3, <2>4, <2>5
<1> QED
  BY <1>1, <1>2, <1>4, Alone DEF IInv

LEMMA RemoveFollows ==
  ASSUME IInv, Follows, InTurn, InTurn', ProviderBackend = "postgres",
         NEW a \in Admin, RemoveProvider(a)
  PROVE  Follows'
<1>1. PICK where \in {"delete", "answer"} :
        /\ AdminGoto(a, where)
        /\ where = "delete" <=> Name(a) \in Registered
  BY DEF RemoveProvider, HasStore
<1>2. /\ adminAt[a] = "remove"
      /\ UNCHANGED <<heap, rows, erred, request>>
  BY DEF RemoveProvider, store
<1>3. /\ Name(a) \in Provider /\ Name(a)' = Name(a) /\ adminAt'[a] = where
      /\ providers \in [Provider -> Object \union {None}]
  BY <1>1, <1>2, RequestParts DEF IInv, Typed, TypeOK, Places, InHand, Name, AdminGoto
<1>4. ASSUME ~erred' PROVE NotShared' /\ OneFlag' /\ Stage(a)'
  <2>1. NotShared /\ OneFlag /\ AllAgree /\ FlaggedOnly(defaultProvider)
    BY <1>2, <1>4 DEF Follows, Stage, InStep
  <2>2. OneFlag'
    BY <1>2, <2>1 DEF OneFlag, Flagged
  <2>3. CASE where = "answer"
    <3>1. UNCHANGED <<providers, defaultProvider>>
      BY <1>1, <2>3 DEF RemoveProvider
    <3>2. NotShared' /\ AllAgree' /\ FlaggedOnly(defaultProvider)'
      BY <1>2, <2>1, <3>1 DEF NotShared, AllAgree, Agrees, FlaggedOnly, Registered
    <3> QED
      BY <1>3, <2>2, <2>3, <3>2 DEF Stage, InStep
  <2>4. CASE where = "delete"
    <3>1. /\ providers'[Name(a)] = None
          /\ \A p \in Provider : p # Name(a) => providers'[p] = providers[p]
          /\ defaultProvider' = IF defaultProvider = Name(a) THEN None ELSE defaultProvider
      BY <1>1, <1>3, <2>4 DEF RemoveProvider
    <3>2. NotShared'
      BY <2>1, <3>1 DEF NotShared, Registered
    <3>3. Name(a) \notin Registered' /\ defaultProvider' # Name(a)
      BY <1>3, <3>1, NoneIsNothing DEF Registered
    <3>4. \A p \in Provider : p # Name(a) =>
            Agrees(p)' /\ (rows'[p] # None => (rows'[p].isDefault <=> p = defaultProvider'))
      BY <1>2, <2>1, <3>1, NoneIsNothing DEF AllAgree, Agrees, Registered, FlaggedOnly
    <3> QED
      BY <1>3, <2>2, <2>4, <3>2, <3>3, <3>4 DEF Stage
  <2> QED
    BY <2>3, <2>4
<1> QED
  BY <1>1, <1>2, <1>4, Alone DEF IInv

LEMMA DeleteFollows ==
  ASSUME IInv, Follows, InTurn, InTurn', NEW a \in Admin, DeleteRow(a)
  PROVE  Follows'
<1>1. /\ AdminGoto(a, "answer") /\ adminAt[a] = "delete"
      /\ UNCHANGED <<heap, providers, defaultProvider, request>>
  BY DEF DeleteRow, Call, router
<1>2. /\ Name(a) \in Provider /\ Name(a)' = Name(a) /\ adminAt'[a] = "answer"
      /\ rows \in [Provider -> Row \union {None}]
  BY <1>1, RequestParts DEF IInv, Typed, TypeOK, Places, InHand, Name, AdminGoto
<1>3. ASSUME ~erred' PROVE NotShared' /\ OneFlag' /\ Stage(a)'
  <2>1. rows' = [rows EXCEPT ![Name(a)] = None] /\ erred' = erred
    BY <1>3 DEF DeleteRow, Call
  <2>2. /\ NotShared /\ Name(a) \notin Registered /\ defaultProvider # Name(a)
        /\ \A p \in Provider : p # Name(a) =>
             Agrees(p) /\ (rows[p] # None => (rows[p].isDefault <=> p = defaultProvider))
    <3>1. NotShared /\ Stage(a)
      BY <1>3, <2>1 DEF Follows
    <3>2. adminAt[a] = "delete"
      BY <1>1
    <3> QED
      BY <3>1, <3>2, SMTT(30) DEF Stage
  <2>3. /\ rows'[Name(a)] = None
        /\ \A p \in Provider : p # Name(a) => rows'[p] = rows[p]
    BY <1>2, <2>1
  <2>4. NotShared' /\ AllAgree'
    BY <1>1, <2>2, <2>3 DEF NotShared, AllAgree, Agrees, Registered
  <2>5. FlaggedOnly(defaultProvider)'
    BY <1>1, <2>2, <2>3 DEF FlaggedOnly
  <2>6. OneFlag'
    BY <2>5 DEF OneFlag, Flagged, FlaggedOnly
  <2> QED
    BY <1>2, <2>4, <2>5, <2>6 DEF Stage, InStep
<1> QED
  BY <1>1, <1>3, Alone DEF IInv

\* A step that leaves the router and the store as they are.
LEMMA AnswerFollows ==
  ASSUME IInv, Follows, InTurn, InTurn', NEW a \in Admin, Answer(a)
  PROVE  Follows'
<1>1. /\ adminAt[a] = "answer" /\ AdminGoto(a, "idle")
      /\ UNCHANGED <<heap, providers, defaultProvider, rows, erred>>
  BY DEF Answer, router, store
<1>2. ASSUME ~erred' PROVE NotShared' /\ OneFlag' /\ Stage(a)' /\ InStep'
  <2>1. NotShared /\ OneFlag /\ InStep
    BY <1>1, <1>2 DEF Follows, Stage
  <2>2. NotShared' /\ OneFlag' /\ InStep'
    BY <1>1, <2>1 DEF NotShared, OneFlag, InStep, AllAgree, Agrees, FlaggedOnly,
                      Flagged, Registered
  <2>3. adminAt'[a] = "idle"
    BY <1>1 DEF AdminGoto, IInv, Typed, TypeOK
  <2> QED
    BY <2>2, <2>3 DEF Stage
<1> QED
  BY <1>1, <1>2, Alone DEF IInv

LEMMA SameFollows ==
  ASSUME Follows, UNCHANGED <<router, store, admins>>
  PROVE  Follows'
<1>1. UNCHANGED <<heap, providers, defaultProvider, rows, erred, adminAt, request,
                  target, oldDefault, fetched>>
  BY DEF router, store, admins
<1>2. /\ NotShared' <=> NotShared
      /\ OneFlag' <=> OneFlag
      /\ InStep' <=> InStep
      /\ AdminsIdle' <=> AdminsIdle
  BY <1>1 DEF NotShared, OneFlag, InStep, AllAgree, Agrees, FlaggedOnly, Flagged,
              Registered, AdminsIdle
<1>3. \A a \in Admin : Stage(a)' <=> Stage(a)
  BY <1>1 DEF Stage, Name, InStep, AllAgree, Agrees, FlaggedOnly, Flagged, Registered
<1> QED
  BY <1>1, <1>2, <1>3 DEF Follows

\* A new process has what the store holds, wherever the old one ended.
LEMMA Reloaded ==
  ASSUME IInv, Restart, ProviderBackend = "postgres"
  PROVE  /\ rows' = rows
         /\ \A p \in Provider : rows[p] = None => providers'[p] = None
         /\ \A p \in Provider : rows[p] # None =>
              providers'[p] = p /\ p \in Object /\ heap'[p] = rows[p].config
         /\ defaultProvider' \in IF Flagged(rows) = {} THEN {None} ELSE Flagged(rows)
<1>1. /\ rows' = rows /\ rows \in [Provider -> Row \union {None}]
      /\ defaultProvider' \in IF Flagged(rows) = {} THEN {None} ELSE Flagged(rows)
  BY DEF Restart, Start, store, LoadedDefaults, IInv, Typed, TypeOK
<1>2. ASSUME NEW p \in Provider, rows[p] = None PROVE providers'[p] = None
  BY <1>2 DEF Restart, Start, Loaded, Listed
<1>3. ASSUME NEW p \in Provider, rows[p] # None
      PROVE  providers'[p] = p /\ p \in Object /\ heap'[p] = rows[p].config
  <2>1. rows[p].config \in Config
    BY <1>1, <1>3 DEF Row
  <2>2. Loaded(rows, p) = rows[p].config /\ Loaded(rows, p) # None
    BY <1>3, <2>1, NoneIsNoRow DEF Loaded, Listed
  <2> QED
    BY <2>2 DEF Restart, Start, Object
<1> QED
  BY <1>1, <1>2, <1>3

LEMMA RestartFollows ==
  ASSUME IInv, Columns, Follows, ProviderBackend = "postgres", Restart
  PROVE  Follows'
<1>1. \A a \in Admin : adminAt'[a] = "idle"
  BY DEF Restart
<1>2. ASSUME ~erred' PROVE NotShared' /\ OneFlag' /\ InStep'
  <2>1. OneFlag
    BY <1>2 DEF Follows, Restart, store
  <2>2. AllAgree'
    BY Reloaded, NoneIsNothing DEF AllAgree, Agrees, Registered, Columns
  <2>3. NotShared'
    BY Reloaded, NoneIsNothing DEF NotShared, Registered
  <2>4. FlaggedOnly(defaultProvider)'
    BY <2>1, Reloaded, NoneIsNothing DEF FlaggedOnly, OneFlag, Flagged
  <2>5. OneFlag'
    BY <2>1, Reloaded DEF OneFlag, Flagged
  <2> QED
    BY <2>2, <2>3, <2>4, <2>5 DEF InStep
<1> QED
  BY <1>1, <1>2 DEF Follows, Stage

LEMMA StepFollows ==
  ASSUME ProviderBackend = "postgres"
  PROVE  IInv /\ Columns /\ Follows /\ InTurn /\ InTurn' /\ [Next]_pvars => Follows'
<1> SUFFICES ASSUME IInv, Columns, Follows, InTurn, InTurn', [Next]_pvars PROVE Follows'
  OBVIOUS
<1>1. CASE UNCHANGED pvars
  BY <1>1, SameFollows DEF pvars
<1>2. ASSUME NEW a \in Admin, Administer(a) PROVE Follows'
  BY <1>2, ReceiveFollows, PutFollows, AddFollows, SaveFollows, SetFollows,
     ClearFollows, FlagFollows, RemoveFollows, DeleteFollows, AnswerFollows
  DEF Administer
<1>3. ASSUME NEW c \in Chat, Serve(c) PROVE Follows'
  <2>1. UNCHANGED <<router, store, admins>>
    BY <1>3 DEF Serve, BeginRange, Visit, EndRange, ReadDefault, FetchDefault, Estimate, Send
  <2> QED
    BY <2>1, SameFollows
<1>4. CASE Restart
  BY <1>4, RestartFollows
<1> QED
  BY <1>1, <1>2, <1>3, <1>4 DEF Next

LEMMA FollowsAlways ==
  ASSUME ProviderBackend = "postgres"
  PROVE  Spec /\ []InTurn => [](IInv /\ Columns /\ Follows)
<1>1. Init => IInv /\ Columns /\ Follows
  BY InitTyped, InitColumns, InitFollows
<1>2. IInv /\ Columns /\ Follows /\ InTurn /\ InTurn' /\ [Next]_pvars
        => IInv' /\ Columns' /\ Follows'
  BY Step, StepColumns, StepFollows
<1> QED
  BY <1>1, <1>2, PTL DEF Spec

\* The default that the router uses is the flagged row.
LEMMA FlagOfDefault == InStep => Flagged(rows) = {Default} \ {None}
BY NoneIsNothing DEF InStep, AllAgree, Agrees, FlaggedOnly, Flagged, Default, Registered

\* On PostgreSQL, for any number of providers, chat requests, restarts and
\* administrators whose requests do not overlap, and for prices of any decimals:
\* between requests the store has the router's providers, their prices as its
\* columns keep them, and their default, unless a call of it has failed, even if
\* a process has ended half-way through a request.
THEOREM StoreFollowsHolds ==
  Spec /\ []InTurn => []StoreFollows
<1>1. CASE ProviderBackend = "postgres"
  <2>1. Spec /\ []InTurn => [](IInv /\ Columns /\ Follows)
    BY <1>1, FollowsAlways
  <2>2. Follows => StoreFollows
    BY FlagOfDefault DEF Follows, StoreFollows, InStep, AllAgree, Agrees
  <2> QED
    BY <2>1, <2>2, PTL
<1>2. CASE ProviderBackend # "postgres"
  <2>1. StoreFollows
    BY <1>2 DEF StoreFollows
  <2> QED
    BY <2>1, PTL
<1> QED
  BY <1>1, <1>2
=============================================================================
