--------------------------- MODULE RequestProofs ----------------------------
(***************************************************************************)
(* Proofs about what serves a request: the routing tables of RoutingCache, *)
(* for any number of managers, engines and proxies, the policy snapshots   *)
(* of PolicySnapshot, for any policies and clocks, and the guests of       *)
(* GuestRequests and CompletionStream, for any number of requests and      *)
(* events.                                                                 *)
(***************************************************************************)
EXTENDS RoutingCache, PolicySnapshot, GuestRequests, CompletionStream, TLAPS

(* Routing tables.                                                         *)

RegistryType ==
    /\ version \in Nat
    /\ route \in [Acts -> {"none", "unhealthy", "healthy"}]
    /\ row \in [Acts -> RowType]
    /\ owner \in OwnerType
    /\ selected \in Revs \cup {0}
    /\ current \in Revs \cup {0}
    /\ live \in [op : Nat, st : {"none", "active"}, rev : Revs \cup {0}]

ProxyType ==
    /\ cache \in [Proxies -> [ver : Nat, up : SUBSET Acts]]
    /\ sync \in [Proxies -> [Syncs ->
                   [st : {"idle", "asked", "labelled", "answered"},
                    known : Nat, ver : Nat, up : SUBSET Acts]]]
    /\ hist \in Seq(SUBSET Acts)

HistOK == Len(hist) = version + 1 /\ hist[version + 1] = Serving

NotOlder(v, up) == \E w \in v .. version : up = hist[w + 1]

CacheOK ==
    \A p \in Proxies : /\ cache[p].ver <= version
                       /\ cache[p].ver > 0 => NotOlder(cache[p].ver, cache[p].up)

SyncOK ==
    \A p \in Proxies, k \in Syncs :
        /\ sync[p][k].st \in {"labelled", "answered"} => sync[p][k].ver <= version
        /\ sync[p][k].st = "answered" => NotOlder(sync[p][k].ver, sync[p][k].up)

Inv == RegistryType /\ ProxyType /\ ServingIsOwned /\ HistOK /\ CacheOK /\ SyncOK

-----------------------------------------------------------------------------

(* Withdraw changes routes only from healthy to unhealthy, so afterwards   *)
(* exactly the serving activations outside the set remain.                 *)
LEMMA WithdrawFacts ==
    ASSUME RegistryType, NEW G
    PROVE  /\ Withdraw(G) \in [Acts -> {"none", "unhealthy", "healthy"}]
           /\ \A e \in Acts : Withdraw(G)[e] = "healthy" <=>
                                 e \notin G /\ route[e] = "healthy"
  BY Zenon DEF Withdraw, RegistryType

(* Every step of the registry keeps the types of its tables. *)
LEMMA RegistryTyped ==
    ASSUME RegistryType, RegistryStep
    PROVE  RegistryType'
<1> USE RegistryAssumption DEF RegistryType
<1>1. ASSUME NEW e \in Acts, RegisterTxn(e) PROVE RegistryType'
  <2> DEFINE old == IF Replay(e) THEN {} ELSE {owner.act} \cap Acts
  <2>1. route' \in [Acts -> {"none", "unhealthy", "healthy"}]
    BY <1>1, WithdrawFacts, Zenon DEF RegisterTxn, RegisteredRow
  <2>2. row' \in [Acts -> RowType]
    BY <1>1 DEF RegisterTxn, RegisteredRow, RowType
  <2>3. owner' \in OwnerType
    BY <1>1 DEF RegisterTxn, RegisteredRow, OwnerType
  <2>4. version' \in Nat
    BY <1>1 DEF RegisterTxn, RegisteredRow, Bump
  <2> QED BY <1>1, <2>1, <2>2, <2>3, <2>4, Zenon DEF RegisterTxn, RegisteredRow
<1>2. ASSUME NEW e \in Acts, NEW h \in {"ok", "failing"}, PublishTxn(e, owner.gen, h)
      PROVE RegistryType'
  <2>1. route' \in [Acts -> {"none", "unhealthy", "healthy"}]
    BY <1>2, WithdrawFacts, Zenon DEF PublishTxn
  <2>2. row' \in [Acts -> RowType]
    BY <1>2, Zenon DEF PublishTxn, RowType
  <2>3. version' \in Nat
    BY <1>2 DEF PublishTxn, Bump
  <2> QED BY <1>2, <2>1, <2>2, <2>3, Zenon DEF PublishTxn
<1>3. ASSUME NEW e \in Acts, DrainTxn(e, owner.gen) PROVE RegistryType'
  BY <1>3, WithdrawFacts DEF DrainTxn, Bump, RowType
<1>4. ASSUME NEW e \in Acts, DeregisterTxn(e, owner.gen) PROVE RegistryType'
  <2>1. route' \in [Acts -> {"none", "unhealthy", "healthy"}]
    BY <1>4, WithdrawFacts, Zenon DEF DeregisterTxn
  <2>2. row' \in [Acts -> RowType]
    BY <1>4, Zenon DEF DeregisterTxn, RowType, NoRow
  <2>3. owner' \in OwnerType
    BY <1>4, Zenon DEF DeregisterTxn, OwnerType
  <2>4. version' \in Nat
    BY <1>4 DEF DeregisterTxn, Bump
  <2> QED BY <1>4, <2>1, <2>2, <2>3, <2>4, Zenon DEF DeregisterTxn
<1>5. ASSUME NEW e \in Acts, BeatAges(e) \/ ModuleAges(e) PROVE RegistryType'
  <2>1. row[e] \in RowType
    BY Zenon
  <2>2. /\ [row[e] EXCEPT !.beat = "stale"] \in RowType
        /\ [row[e] EXCEPT !.mod = "stale"] \in RowType
    BY <2>1, Zenon DEF RowType
  <2>3. row' \in [Acts -> RowType]
    BY <1>5, <2>2, Zenon DEF BeatAges, ModuleAges
  <2> QED BY <1>5, <2>3, Zenon DEF BeatAges, ModuleAges
<1>6. ASSUME SwitchTxn PROVE RegistryType'
  BY <1>6, WithdrawFacts DEF SwitchTxn, Bump
<1>7. ASSUME NEW r \in Revs \cup {0}, OperationStarts(r) PROVE RegistryType'
  BY <1>7 DEF OperationStarts
<1>8. ASSUME OperationRestores \/ OperationEnds \/ OperationCommits
      PROVE RegistryType'
  <2>1. CASE OperationRestores
    BY <2>1, Zenon DEF OperationRestores
  <2>2. CASE OperationEnds
    BY <2>2, Zenon DEF OperationEnds
  <2>3. CASE OperationCommits
    BY <2>3, Zenon DEF OperationCommits
  <2> QED BY <1>8, <2>1, <2>2, <2>3, Zenon
<1>9. ASSUME MonitorTxn PROVE RegistryType'
  BY <1>9 DEF MonitorTxn, Bump
<1>10. ASSUME AdminTxn PROVE RegistryType'
  BY <1>10 DEF AdminTxn, Bump
<1> QED
  BY <1>1, <1>2, <1>3, <1>4, <1>5, <1>6, <1>7, <1>8, <1>9, <1>10 DEF RegistryStep

-----------------------------------------------------------------------------

(* The serving set changes only together with the version: each            *)
(* transaction bumps it whenever a route changed.                          *)
LEMMA ChangesAreVersioned ==
    ASSUME RegistryType, RegistryStep
    PROVE  /\ version' \in {version, version + 1}
           /\ Serving' # Serving => version' = version + 1
<1> USE DEF RegistryType
<1>1. ASSUME route' = route PROVE Serving' = Serving
  BY <1>1, Zenon DEF Serving
<1>2. ASSUME NEW C, Bump(C), route' # route => C
      PROVE  /\ version' \in {version, version + 1}
             /\ Serving' # Serving => version' = version + 1
  BY <1>1, <1>2, Zenon DEF Bump
<1>3. ASSUME version' = version, route' = route
      PROVE  /\ version' \in {version, version + 1}
             /\ Serving' # Serving => version' = version + 1
  BY <1>1, <1>3, Zenon
<1>4. CASE \E e \in Acts : RegisterTxn(e)
  BY <1>2, <1>4, Zenon DEF RegisterTxn, RegisteredRow
<1>5. CASE \E e \in Acts, h \in {"ok", "failing"} : PublishTxn(e, owner.gen, h)
  <2>1. Bump(route' # route)
    BY <1>5, Zenon DEF PublishTxn
  <2> QED BY <1>2, <2>1, Zenon
<1>6. CASE \E e \in Acts : DrainTxn(e, owner.gen) \/ DeregisterTxn(e, owner.gen)
  <2>1. Bump(route' # route)
    BY <1>6, Zenon DEF DrainTxn, DeregisterTxn
  <2> QED BY <1>2, <2>1, Zenon
<1>7. CASE SwitchTxn \/ MonitorTxn
  <2>1. Bump(route' # route)
    BY <1>7, Zenon DEF SwitchTxn, MonitorTxn
  <2> QED BY <1>2, <2>1, Zenon
<1>8. CASE AdminTxn
  BY <1>2, <1>8, Zenon DEF AdminTxn
<1>9. CASE \E e \in Acts : BeatAges(e) \/ ModuleAges(e)
  BY <1>3, <1>9, Zenon DEF BeatAges, ModuleAges
<1>10. CASE \/ \E r \in Revs \cup {0} : OperationStarts(r)
            \/ OperationRestores \/ OperationEnds \/ OperationCommits
  BY <1>3, <1>10, Zenon DEF OperationStarts, OperationRestores, OperationEnds,
                     OperationCommits
<1> QED
  BY <1>4, <1>5, <1>6, <1>7, <1>8, <1>9, <1>10, Zenon DEF RegistryStep

(* Whoever serves after a step was entitled to before it, or has just been *)
(* found entitled by the transaction that made it serve.                   *)
LEMMA OwnershipKept ==
    ASSUME RegistryType, ServingIsOwned, RegistryStep
    PROVE  ServingIsOwned'
<1> USE RegistryAssumption DEF RegistryType
<1> SUFFICES ASSUME NEW f \in Acts, route'[f] = "healthy"
             PROVE  /\ row'[f].st = "live"
                    /\ owner'.act = f
                    /\ owner'.held = "yes"
                    /\ selected' \in {RevOf[f], 0}
  BY Zenon DEF ServingIsOwned, Serving
<1>0. ASSUME route[f] = "healthy"
      PROVE  /\ row[f].st = "live"
             /\ owner.act = f
             /\ owner.held = "yes"
             /\ selected \in {RevOf[f], 0}
  BY <1>0, Zenon DEF ServingIsOwned, Serving
<1>1. CASE \E e \in Acts : RegisterTxn(e)
  <2> PICK e \in Acts : RegisterTxn(e)
    BY <1>1, Zenon
  <2>1. f # e
    BY WithdrawFacts DEF RegisterTxn, RegisteredRow
  <2>2. route[f] = "healthy" /\ f \notin (IF Replay(e) THEN {} ELSE {owner.act} \cap Acts)
    BY <2>1, WithdrawFacts DEF RegisterTxn, RegisteredRow
  <2>3. owner.act = f
    BY <2>2, <1>0, Zenon
  <2> QED BY <2>1, <2>2, <2>3, Zenon DEF Replay
<1>2. CASE \E e \in Acts, h \in {"ok", "failing"} : PublishTxn(e, owner.gen, h)
  <2> PICK e \in Acts, h \in {"ok", "failing"} : PublishTxn(e, owner.gen, h)
    BY <1>2, Zenon
  <2>1. row'[f].st = row[f].st
    BY Zenon DEF PublishTxn, RowType
  <2>2. owner' = owner /\ selected' = selected
    BY Zenon DEF PublishTxn
  <2>3. CASE route[f] = "healthy"
    BY <2>1, <2>2, <2>3, <1>0, Zenon
  <2>4. CASE route[f] # "healthy"
    <3>1. f = e /\ Authoritative(e)
      BY <2>4, WithdrawFacts DEF PublishTxn
    <3> QED BY <3>1, <2>1, <2>2, Zenon DEF PublishTxn, PublishAllowed, Authoritative
  <2> QED BY <2>3, <2>4, Zenon
<1>3. CASE \E e \in Acts : DrainTxn(e, owner.gen)
  <2> PICK e \in Acts : DrainTxn(e, owner.gen)
    BY <1>3, Zenon
  <2>1. f # e /\ route[f] = "healthy"
    BY WithdrawFacts DEF DrainTxn
  <2> QED BY <2>1, <1>0, Zenon DEF DrainTxn, RowType
<1>4. CASE \E e \in Acts : DeregisterTxn(e, owner.gen)
  <2> PICK e \in Acts : DeregisterTxn(e, owner.gen)
    BY <1>4, Zenon
  <2>1. f # e /\ route[f] = "healthy"
    BY WithdrawFacts DEF DeregisterTxn
  <2> QED BY <2>1, <1>0, Zenon DEF DeregisterTxn, FenceHeld
<1>5. CASE \E e \in Acts : BeatAges(e) \/ ModuleAges(e)
  <2>1. row'[f].st = row[f].st /\ route' = route /\ owner' = owner /\ selected' = selected
    BY <1>5 DEF BeatAges, ModuleAges, RowType
  <2> QED BY <2>1, <1>0, Zenon
<1>6. CASE SwitchTxn
  <2>1. route[f] = "healthy" /\ ~(row[f].st # "none" /\ RevOf[f] # live.rev)
    BY <1>6, WithdrawFacts DEF SwitchTxn
  <2> QED BY <1>6, <2>1, <1>0, Zenon DEF SwitchTxn
<1>7. CASE MonitorTxn
  BY <1>7, Zenon DEF MonitorTxn, Backed, Authoritative
<1>8. CASE \/ AdminTxn
           \/ \E r \in Revs \cup {0} : OperationStarts(r)
           \/ OperationRestores \/ OperationEnds \/ OperationCommits
  <2>1. row' = row /\ route' = route /\ owner' = owner /\ selected' = selected
    BY <1>8, Zenon DEF AdminTxn, OperationStarts, OperationRestores, OperationEnds,
                OperationCommits
  <2> QED BY <2>1, <1>0, Zenon
<1> QED
  BY <1>1, <1>2, <1>3, <1>4, <1>5, <1>6, <1>7, <1>8, Zenon DEF RegistryStep

-----------------------------------------------------------------------------

(* Appending to the history keeps what was not older than its label so. *)
LEMMA HistoryGrows ==
    ASSUME NEW v \in Nat, NEW up, NotOlder(v, up), RegistryType, ProxyType, HistOK,
           \/ version' = version /\ hist' = hist
           \/ version' = version + 1 /\ hist' = Append(hist, Serving')
    PROVE  NotOlder(v, up)'
<1> USE DEF RegistryType, ProxyType, HistOK
<1> PICK w \in v .. version : up = hist[w + 1]
  BY Zenon DEF NotOlder
<1>1. CASE version' = version /\ hist' = hist
  BY <1>1, Zenon DEF NotOlder
<1>2. CASE version' = version + 1 /\ hist' = Append(hist, Serving')
  <2>1. w \in v .. version' /\ w + 1 \in 1 .. Len(hist)
    BY <1>2
  <2>2. hist'[w + 1] = hist[w + 1]
    BY <1>2, <2>1
  <2> QED BY <2>1, <2>2, Zenon DEF NotOlder
<1> QED BY <1>1, <1>2, Zenon

(* Every transaction of the registry keeps the invariant: the history      *)
(* grows by the new serving set, and no label is overtaken.                *)
LEMMA RegistryInvariant ==
    ASSUME Inv, Registry
    PROVE  Inv'
<1> USE DEF Inv, Registry
<1>1. RegistryType' /\ ServingIsOwned'
  BY RegistryTyped, OwnershipKept, Zenon
<1>2. \/ version' = version /\ hist' = hist /\ Serving' = Serving
      \/ version' = version + 1 /\ hist' = Append(hist, Serving')
  BY ChangesAreVersioned DEF RegistryType
<1>3. Serving' \in SUBSET Acts
  BY Zenon DEF Serving
<1>4. ProxyType'
  BY <1>2, <1>3 DEF ProxyType
<1>5. HistOK'
  <2>1. CASE version' = version /\ hist' = hist /\ Serving' = Serving
    BY <2>1, Zenon DEF HistOK
  <2>2. CASE version' = version + 1 /\ hist' = Append(hist, Serving')
    BY <2>2, <1>3 DEF HistOK, ProxyType, RegistryType
  <2> QED BY <1>2, <2>1, <2>2, Zenon
<1>6. version <= version'
  BY <1>2 DEF RegistryType
<1>7. CacheOK'
  <2> SUFFICES ASSUME NEW p \in Proxies
               PROVE  /\ cache'[p].ver <= version'
                      /\ cache'[p].ver > 0 => NotOlder(cache[p].ver, cache[p].up)'
    BY Zenon DEF CacheOK
  <2>1. cache[p].ver \in Nat
    BY Zenon DEF ProxyType
  <2>2. cache' = cache /\ cache[p].ver <= version
    BY Zenon DEF CacheOK
  <2>3. ASSUME cache[p].ver > 0 PROVE NotOlder(cache[p].ver, cache[p].up)'
    <3>1. NotOlder(cache[p].ver, cache[p].up)
      BY <2>3, Zenon DEF CacheOK
    <3> PICK v, up : v = cache[p].ver /\ up = cache[p].up
      BY Zenon
    <3>2. NotOlder(v, up)'
      BY <3>1, <2>1, <1>2, HistoryGrows, Zenon
    <3> QED BY <3>2, <2>2, Zenon DEF NotOlder
  <2> QED BY <2>1, <2>2, <2>3, <1>6, <1>1 DEF RegistryType
<1>8. SyncOK'
  <2> SUFFICES ASSUME NEW p \in Proxies, NEW k \in Syncs
               PROVE  /\ sync'[p][k].st \in {"labelled", "answered"} =>
                            sync'[p][k].ver <= version'
                      /\ sync'[p][k].st = "answered" =>
                            NotOlder(sync[p][k].ver, sync[p][k].up)'
    BY Zenon DEF SyncOK
  <2>1. sync[p][k].ver \in Nat
    BY Zenon DEF ProxyType
  <2>2. sync' = sync
    BY Zenon
  <2>3. ASSUME sync[p][k].st = "answered"
        PROVE  NotOlder(sync[p][k].ver, sync[p][k].up)'
    <3>1. NotOlder(sync[p][k].ver, sync[p][k].up)
      BY <2>3, Zenon DEF SyncOK
    <3> PICK v, up : v = sync[p][k].ver /\ up = sync[p][k].up
      BY Zenon
    <3>2. NotOlder(v, up)'
      BY <3>1, <2>1, <1>2, HistoryGrows, Zenon
    <3> QED BY <3>2, <2>2, Zenon DEF NotOlder
  <2>4. sync[p][k].st \in {"labelled", "answered"} => sync[p][k].ver <= version'
    BY <2>1, <1>6, <1>1 DEF SyncOK, RegistryType
  <2> QED BY <2>2, <2>3, <2>4, Zenon
<1> QED BY <1>1, <1>4, <1>5, <1>7, <1>8, Zenon

(* A proxy's step leaves the registry and the history alone, so only the   *)
(* records it writes have to be looked at.                                 *)
LEMMA ProxyInvariant ==
    ASSUME Inv, Proxy
    PROVE  Inv'
<1> USE DEF Inv
<1>1. registry' = registry /\ hist' = hist
  BY DEF Proxy, SyncStarts, ReadVersion, ReadRules, Install, SyncFails, ProxyRestarts
<1>2. RegistryType' /\ ServingIsOwned' /\ HistOK' /\ Serving' = Serving
  BY <1>1 DEF RegistryType, ServingIsOwned, HistOK, Serving, registry
<1>3. \A v, up : NotOlder(v, up)' <=> NotOlder(v, up)
  BY <1>1, Zenon DEF NotOlder, registry
<1>4. Serving \in SUBSET Acts /\ NotOlder(version, Serving)
  BY DEF Serving, NotOlder, HistOK, RegistryType
<1> SUFFICES ProxyType' /\ CacheOK' /\ SyncOK'
  BY <1>2, Zenon
<1>5. ASSUME NEW p \in Proxies, NEW k \in Syncs, NEW new,
             new \in [st : {"idle", "asked", "labelled", "answered"},
                      known : Nat, ver : Nat, up : SUBSET Acts],
             sync' = [sync EXCEPT ![p][k] = new], cache' = cache,
             new.st \in {"labelled", "answered"} => new.ver <= version,
             new.st = "answered" => NotOlder(new.ver, new.up)
      PROVE  ProxyType' /\ CacheOK' /\ SyncOK'
  <2>1. ProxyType'
    BY <1>1, <1>5, Zenon DEF ProxyType
  <2>2. CacheOK'
    BY <1>1, <1>3, <1>5, Zenon DEF CacheOK, registry
  <2>3. \A q \in Proxies, j \in Syncs :
           sync'[q][j] = IF q = p /\ j = k THEN new ELSE sync[q][j]
    BY <1>5, Zenon DEF ProxyType
  <2>4. SyncOK'
    BY <1>1, <1>3, <1>5, <2>3 DEF SyncOK, registry
  <2> QED BY <2>1, <2>2, <2>4, Zenon
<1>6. Idle \in [st : {"idle", "asked", "labelled", "answered"},
                known : Nat, ver : Nat, up : SUBSET Acts] /\ Idle.st = "idle"
  BY Zenon DEF Idle
<1>7. ASSUME NEW p \in Proxies, NEW k \in Syncs, SyncStarts(p, k)
      PROVE  ProxyType' /\ CacheOK' /\ SyncOK'
  <2> PICK new : new = [Idle EXCEPT !.st = "asked", !.known = cache[p].ver]
    BY Zenon
  <2>1. new \in [st : {"idle", "asked", "labelled", "answered"},
                 known : Nat, ver : Nat, up : SUBSET Acts] /\ new.st = "asked"
    BY Zenon DEF Idle, ProxyType
  <2> QED BY <1>5, <1>7, <2>1, Zenon DEF SyncStarts
<1>8. ASSUME NEW p \in Proxies, NEW k \in Syncs, ReadVersion(p, k)
      PROVE  ProxyType' /\ CacheOK' /\ SyncOK'
  <2>0. cache' = cache
    BY <1>8, Zenon DEF ReadVersion
  <2>1. CASE sync' = [sync EXCEPT ![p][k] = Idle]
    BY <1>5, <1>6, <2>0, <2>1, Zenon
  <2>2. CASE sync' = [sync EXCEPT ![p][k] =
                        [sync[p][k] EXCEPT !.st = "labelled", !.ver = version]]
    <3> PICK new : new = [sync[p][k] EXCEPT !.st = "labelled", !.ver = version]
      BY Zenon
    <3>1. new \in [st : {"idle", "asked", "labelled", "answered"},
                   known : Nat, ver : Nat, up : SUBSET Acts]
          /\ new.st = "labelled" /\ new.ver = version
      <4>1. sync[p][k] \in [st : {"idle", "asked", "labelled", "answered"},
                            known : Nat, ver : Nat, up : SUBSET Acts]
        BY Zenon DEF ProxyType
      <4>2. version \in Nat
        BY Zenon DEF RegistryType
      <4> QED BY <4>1, <4>2, Zenon
    <3>2. version <= version
      BY DEF RegistryType
    <3>3. sync' = [sync EXCEPT ![p][k] = new]
      BY <2>2, Zenon
    <3> QED BY <1>5, <2>0, <3>1, <3>2, <3>3, Zenon
  <2> QED BY <1>8, <2>1, <2>2, Zenon DEF ReadVersion
<1>9. ASSUME NEW p \in Proxies, NEW k \in Syncs, ReadRules(p, k)
      PROVE  ProxyType' /\ CacheOK' /\ SyncOK'
  <2> PICK new : new = [sync[p][k] EXCEPT !.st = "answered", !.up = Serving]
    BY Zenon
  <2>1. new \in [st : {"idle", "asked", "labelled", "answered"},
                 known : Nat, ver : Nat, up : SUBSET Acts]
        /\ new.st = "answered" /\ new.ver = sync[p][k].ver /\ new.up = Serving
    <3>1. sync[p][k] \in [st : {"idle", "asked", "labelled", "answered"},
                          known : Nat, ver : Nat, up : SUBSET Acts]
      BY Zenon DEF ProxyType
    <3> QED BY <1>4, <3>1, Zenon
  <2>2. sync' = [sync EXCEPT ![p][k] = new] /\ cache' = cache
    BY <1>9, Zenon DEF ReadRules, ProxyType
  <2>3. new.ver <= version /\ new.ver \in Nat
    BY <1>9, <2>1, Zenon DEF ReadRules, SyncOK
  <2>4. NotOlder(new.ver, new.up)
    BY <1>4, <2>1, <2>3 DEF NotOlder, RegistryType, HistOK
  <2> QED BY <1>5, <2>1, <2>2, <2>3, <2>4, Zenon
<1>10. ASSUME NEW p \in Proxies, NEW k \in Syncs, SyncFails(p, k)
       PROVE  ProxyType' /\ CacheOK' /\ SyncOK'
  BY <1>5, <1>6, <1>10, Zenon DEF SyncFails
<1>11. ASSUME NEW p \in Proxies, NEW k \in Syncs, Install(p, k)
       PROVE  ProxyType' /\ CacheOK' /\ SyncOK'
  <2>1. ProxyType' /\ SyncOK'
    <3>1. sync' \in [Proxies -> [Syncs ->
                   [st : {"idle", "asked", "labelled", "answered"},
                    known : Nat, ver : Nat, up : SUBSET Acts]]]
      BY <1>6, <1>11, Zenon DEF Install, ProxyType
    <3>2. cache' \in [Proxies -> [ver : Nat, up : SUBSET Acts]]
      BY <1>11 DEF Install, ProxyType
    <3>3. \A q \in Proxies, j \in Syncs :
             sync'[q][j] = IF q = p /\ j = k THEN Idle ELSE sync[q][j]
      BY <1>11, Zenon DEF Install, ProxyType
    <3>4. SyncOK'
      BY <1>1, <1>3, <3>3 DEF SyncOK, registry, Idle
    <3> QED BY <1>1, <3>1, <3>2, <3>4, Zenon DEF ProxyType
  <2>2. CacheOK'
    <3>1. sync[p][k].ver <= version /\ NotOlder(sync[p][k].ver, sync[p][k].up)
      BY <1>11, Zenon DEF Install, SyncOK
    <3>2. ASSUME NEW q \in Proxies
          PROVE  \/ cache'[q] = cache[q]
                 \/ cache'[q] = [ver |-> sync[p][k].ver, up |-> sync[p][k].up]
      BY <1>11, Zenon DEF Install, ProxyType
    <3> QED BY <1>1, <1>3, <3>1, <3>2 DEF CacheOK, registry
  <2> QED BY <2>1, <2>2, Zenon
<1>12. ASSUME NEW p \in Proxies, ProxyRestarts(p)
       PROVE  ProxyType' /\ CacheOK' /\ SyncOK'
  <2>1. ProxyType'
    BY <1>1, <1>6, <1>12, Zenon DEF ProxyRestarts, ProxyType, Empty
  <2>2. \A q \in Proxies : cache'[q] = IF q = p THEN Empty ELSE cache[q]
    BY <1>12, Zenon DEF ProxyRestarts, ProxyType
  <2>3. CacheOK'
    BY <1>1, <1>3, <2>2 DEF CacheOK, Empty, registry, RegistryType
  <2>4. \A q \in Proxies, j \in Syncs :
           sync'[q][j] = IF q = p THEN Idle ELSE sync[q][j]
    BY <1>12, Zenon DEF ProxyRestarts, ProxyType
  <2>5. SyncOK'
    BY <1>1, <1>3, <2>4 DEF SyncOK, Idle, registry
  <2> QED BY <2>1, <2>3, <2>5, Zenon
<1> QED
  BY <1>7, <1>8, <1>9, <1>10, <1>11, <1>12, Zenon DEF Proxy

(* An empty registry with empty caches satisfies the invariant.            *)
LEMMA InitInvariant == Init => Inv
<1> SUFFICES ASSUME Init PROVE Inv
  BY Zenon
<1> USE RegistryAssumption DEF Init, RegistryInit
<1>1. RegistryType
  BY Zenon DEF RegistryType, RowType, NoRow, OwnerType
<1>2. Serving = {} /\ Len(hist) = 1 /\ hist[1] = {}
  BY Zenon DEF Serving
<1>3. ProxyType
  BY DEF ProxyType, Empty, Idle
<1>4. ServingIsOwned /\ HistOK
  BY <1>2 DEF ServingIsOwned, HistOK
<1>5. CacheOK /\ SyncOK
  BY DEF CacheOK, SyncOK, Empty, Idle
<1> QED BY <1>1, <1>3, <1>4, <1>5, Zenon DEF Inv

(* A step that changes nothing keeps it.                                   *)
LEMMA StutterInvariant == Inv /\ UNCHANGED vars => Inv'
  BY DEF Inv, RegistryType, ProxyType, ServingIsOwned, HistOK, CacheOK, SyncOK,
         NotOlder, Serving, vars, registry

(* The invariant holds in every reachable state.                           *)
LEMMA Invariance == Spec => []Inv
<1>1. Inv /\ [Next]_vars => Inv'
  BY RegistryInvariant, ProxyInvariant, StutterInvariant, Zenon DEF Next
<1> QED BY InitInvariant, <1>1, PTL DEF Spec

-----------------------------------------------------------------------------

(* The tables, caches and synchronizations keep their types. *)
THEOREM TypeCorrect == Spec => []TypeOK
<1>1. Inv => TypeOK
  BY Zenon DEF Inv, RegistryType, ProxyType, TypeOK
<1> QED BY <1>1, Invariance, PTL

(* Only the slot's owner serves: for any number of activations taking the  *)
(* slot over through register_engine_and_routes, a serving route is that   *)
(* of the live owner, of the selected revision.                            *)
THEOREM OnlyTheOwnerServes == Spec => []ServingIsOwned
<1>1. Inv => ServingIsOwned
  BY Zenon DEF Inv
<1> QED BY <1>1, Invariance, PTL

(* Reading the version before the rules is enough, without a transaction:  *)
(* no cache of any proxy is ever older than its label.                     *)
THEOREM CachesNotOlder == Spec => []TableNotOlderThanLabel
<1>1. Inv => TableNotOlderThanLabel
  BY Zenon DEF Inv, CacheOK, NotOlder, TableNotOlderThanLabel
<1> QED BY <1>1, Invariance, PTL

(* A proxy that has converged to the current version routes to exactly the *)
(* serving activations (the promise behind a drain acknowledgement).       *)
THEOREM ConvergedMeansCurrent == Spec => []CurrentLabelIsCurrentTable
<1>1. Inv => CurrentLabelIsCurrentTable
  BY DEF Inv, CacheOK, NotOlder, HistOK, RegistryType, CurrentLabelIsCurrentTable
<1> QED BY <1>1, Invariance, PTL

(* Every change of the serving set is versioned. *)
THEOREM EveryChangeIsVersioned == Spec => VersionCoversChange
<1>1. Inv /\ [Next]_vars =>
        [/\ version' \in {version, version + 1}
         /\ Serving' # Serving => version' = version + 1]_registry
  <2>1. ASSUME Inv, Registry
        PROVE  /\ version' \in {version, version + 1}
               /\ Serving' # Serving => version' = version + 1
    BY <2>1, ChangesAreVersioned, Zenon DEF Inv, Registry
  <2>2. ASSUME Proxy PROVE registry' = registry
    BY <2>2, Zenon DEF Proxy, SyncStarts, ReadVersion, ReadRules, Install, SyncFails,
                ProxyRestarts
  <2> QED BY <2>1, <2>2, Zenon DEF Next, vars
<1> QED BY <1>1, Invariance, PTL DEF Spec, VersionCoversChange

-----------------------------------------------------------------------------

(* Policy snapshots.                                                       *)

(* What consume does with an answer: the retained policy stays, or is      *)
(* replaced by one whose generation is not lower and, when equal, is the   *)
(* same policy; a snapshot counted fresh expires with its stamp.           *)
LEMMA ConsumeOutcome ==
    ASSUME SnapshotTypeOK, NEW snap \in Snapshots, Consume(snap)
    PROVE  /\ state' \in {"empty", "fresh", "stale", "blocked"}
           /\ recovery' \in {"none", "any", "matching", "higher"}
           /\ \/ /\ policy' = policy /\ freshUntil' = freshUntil
                 /\ state' = "fresh" => state = "fresh"
              \/ /\ state' = "fresh" /\ policy' = snap.pol
                 /\ freshUntil' \in Int /\ freshUntil' <= snap.issued + Validity
                 /\ policy # None /\ policy' # policy => GenOf[policy'] > GenOf[policy]
  <1>1. CASE Consume(snap) /\ ~Decodes(snap)
    BY <1>1, Zenon DEF Consume, ConsumeError, SnapshotTypeOK
  <1>2. CASE Decodes(snap) /\ Regressed(snap)
    BY <1>2, Zenon DEF Consume, Block, SnapshotTypeOK
  <1>3. CASE Decodes(snap) /\ ~Regressed(snap) /\ Conflicting(snap)
    BY <1>3, Zenon DEF Consume, Block, SnapshotTypeOK
  <1>4. CASE Decodes(snap) /\ ~Regressed(snap) /\ ~Conflicting(snap) /\ Withheld(snap)
    BY <1>4, Zenon DEF Consume, Withhold, Expire, SnapshotTypeOK
  <1>5. CASE Decodes(snap) /\ ~Regressed(snap) /\ ~Conflicting(snap) /\ ~Withheld(snap)
    <2>1. Accept(snap)
      BY <1>5, Zenon DEF Consume
    <2>2. freshUntil' \in Int /\ freshUntil' <= snap.issued + Validity
      BY <2>1, PolicyAssumption DEF Accept, SnapshotTypeOK, Snapshots
    <2>3. policy # None /\ policy' # policy => GenOf[policy'] > GenOf[policy]
      BY <1>5, <2>1, PolicyAssumption
      DEF Accept, Regressed, Conflicting, SnapshotTypeOK, Snapshots
    <2> QED BY <2>1, <2>2, <2>3, Zenon DEF Accept
  <1> QED BY <1>1, <1>2, <1>3, <1>4, <1>5, Zenon

(* The clock of use only moves forward, so an old promise stays kept. *)
LEMMA LastRunGrows ==
    ASSUME SnapshotInv, SnapshotNext \/ UNCHANGED snapshotVars
    PROVE  /\ lastRun' \in [Peers -> Nat]
           /\ \A x \in Peers : lastRun'[x] >= lastRun[x] /\ lastRun'[x] <= now'
           /\ \A x \in Vouched' : lastRun'[x] = now'
  <1> USE DEF SnapshotInv, SnapshotTypeOK
  <1>1. CASE Tick
    BY <1>1 DEF Tick, Vouched, consumer
  <1>2. ASSUME NEW m \in Managers, NEW p \in Policies, Rollout(m, p)
        PROVE  /\ lastRun' \in [Peers -> Nat]
               /\ \A x \in Peers : lastRun'[x] >= lastRun[x] /\ lastRun'[x] <= now'
               /\ \A x \in Vouched' : lastRun'[x] = now'
    BY <1>2, PolicyAssumption DEF Rollout, Vouched, consumer
  <1>3. CASE UNCHANGED <<now, running, lastRun>>
    BY <1>3 DEF Vouched
  <1>4. ASSUME NEW m \in Managers, Build(m) PROVE UNCHANGED <<now, running, lastRun>>
    BY <1>4, Zenon DEF Build
  <1>5. ASSUME NEW x \in Peers, Decide(x) PROVE UNCHANGED <<now, running, lastRun>>
    BY <1>5, Zenon DEF Decide
  <1>6. ReceiveSnapshot \/ Lose \/ UNCHANGED snapshotVars => UNCHANGED <<now, running, lastRun>>
    BY Zenon DEF ReceiveSnapshot, Lose, snapshotVars
  <1> QED BY <1>1, <1>2, <1>3, <1>4, <1>5, <1>6, Zenon DEF SnapshotNext

(* Every step of the managers, of the consumer and of the clocks keeps     *)
(* SnapshotInv.                                                            *)
LEMMA SnapshotInductive ==
    ASSUME SnapshotInv, SnapshotNext \/ UNCHANGED snapshotVars
    PROVE  SnapshotInv'
  <1> USE PolicyAssumption
  <1>0. /\ lastRun' \in [Peers -> Nat]
        /\ \A x \in Peers : lastRun'[x] >= lastRun[x] /\ lastRun'[x] <= now'
        /\ \A x \in Vouched' : lastRun'[x] = now'
    BY LastRunGrows, Zenon
  <1>1. CASE Tick
    BY <1>0, <1>1 DEF Tick, consumer, SnapshotInv, SnapshotTypeOK, Snapshots, NoReply
  <1>2. ASSUME NEW m \in Managers, NEW p \in Policies, Rollout(m, p) PROVE SnapshotInv'
    BY <1>0, <1>2 DEF Rollout, consumer, SnapshotInv, SnapshotTypeOK, Snapshots, NoReply
  <1>3. ASSUME NEW m \in Managers, Build(m) PROVE SnapshotInv'
    <2>1. reply' \in Snapshots
      BY <1>3 DEF Build, Snapshots, SnapshotInv, SnapshotTypeOK
    <2>2. \A x \in Enrolled[reply'.pol] : reply'.issued <= lastRun'[x] + MaxFutureSkew
      <3>1. \A x \in Enrolled[running[m]] : x \in Vouched
        BY Zenon DEF Vouched, SnapshotInv, SnapshotTypeOK
      <3> QED BY <1>3, <3>1 DEF Build, SnapshotInv, SnapshotTypeOK
    <2> QED BY <1>0, <1>3, <2>1, <2>2, Zenon DEF Build, consumer, SnapshotInv, SnapshotTypeOK
  <1>4. CASE ReceiveSnapshot
    <2>1. reply \in Snapshots
      BY <1>4, Zenon DEF ReceiveSnapshot, SnapshotInv, SnapshotTypeOK
    <2>2. /\ state' \in {"empty", "fresh", "stale", "blocked"}
          /\ recovery' \in {"none", "any", "matching", "higher"}
          /\ \/ /\ policy' = policy /\ freshUntil' = freshUntil
                /\ state' = "fresh" => state = "fresh"
             \/ /\ state' = "fresh" /\ policy' = reply.pol
                /\ freshUntil' \in Int /\ freshUntil' <= reply.issued + Validity
      BY <1>4, <2>1, ConsumeOutcome, Zenon DEF ReceiveSnapshot, SnapshotInv
    <2>3. reply' = NoReply /\ now' = now /\ running' = running /\ lastRun' = lastRun
      BY <1>4, Zenon DEF ReceiveSnapshot
    <2>4. state' = "fresh" =>
            /\ policy' \in Policies
            /\ \A x \in Enrolled[policy'] :
                 freshUntil' <= lastRun'[x] + Validity + MaxFutureSkew
      BY <1>4, <2>1, <2>2, <2>3 DEF ReceiveSnapshot, SnapshotInv, SnapshotTypeOK, Snapshots
    <2>5. policy' \in Policies \cup {None} /\ freshUntil' \in Int
      BY <2>1, <2>2, Zenon DEF SnapshotInv, SnapshotTypeOK, Snapshots
    <2> QED BY <1>0, <2>2, <2>3, <2>4, <2>5, Zenon DEF SnapshotInv, SnapshotTypeOK
  <1>5. CASE Lose
    BY <1>0, <1>5, Zenon DEF Lose, ConsumeError, SnapshotInv, SnapshotTypeOK
  <1>6. ASSUME NEW x \in Peers, Decide(x) PROVE SnapshotInv'
    BY <1>0, <1>6, Zenon DEF Decide, Expire, SnapshotInv, SnapshotTypeOK
  <1>7. CASE UNCHANGED snapshotVars
    BY <1>0, <1>7, Zenon DEF snapshotVars, SnapshotInv, SnapshotTypeOK
  <1> QED BY <1>1, <1>2, <1>3, <1>4, <1>5, <1>6, <1>7, Zenon DEF SnapshotNext

(* SnapshotInv holds of a consumer that retains nothing yet.               *)
LEMMA SnapshotInitial ==
    ASSUME NEW initial \in [Managers -> Policies], SnapshotInit(initial)
    PROVE  SnapshotInv /\ RevocationTakesHold
  <1>1. ~verdict.admitted
    BY Zenon DEF SnapshotInit, NoVerdict
  <1> QED BY <1>1, PolicyAssumption
          DEF SnapshotInit, SnapshotInv, SnapshotTypeOK, RevocationTakesHold, Vouched

(* A decision admits a peer only on a snapshot that is still within its    *)
(* time, so the policy that enrols the peer was in use recently.           *)
LEMMA DecisionIsRecent ==
    ASSUME SnapshotInv, RevocationTakesHold, SnapshotNext \/ UNCHANGED snapshotVars
    PROVE  RevocationTakesHold'
  <1>1. CASE UNCHANGED verdict
    BY <1>1, Zenon DEF RevocationTakesHold
  <1>2. ASSUME NEW x \in Peers, Decide(x) PROVE RevocationTakesHold'
    <2>1. CASE verdict'.admitted
      <3>1. IsFresh /\ policy # None /\ x \in Enrolled[policy]
        BY <1>2, <2>1, Zenon DEF Decide
      <3>2. now < lastRun[x] + Validity + MaxFutureSkew
        BY <3>1, PolicyAssumption DEF IsFresh, SnapshotInv, SnapshotTypeOK
      <3> QED BY <1>2, <3>2, PolicyAssumption
              DEF Decide, RevocationTakesHold, SnapshotInv, SnapshotTypeOK
    <2> QED BY <2>1, Zenon DEF RevocationTakesHold
  <1>3. ASSUME NEW m \in Managers PROVE Build(m) => UNCHANGED verdict
    BY Zenon DEF Build
  <1>4. ASSUME NEW m \in Managers, NEW p \in Policies PROVE Rollout(m, p) => UNCHANGED verdict
    BY Zenon DEF Rollout
  <1>5. Tick \/ ReceiveSnapshot \/ Lose \/ UNCHANGED snapshotVars => UNCHANGED verdict
    BY Zenon DEF Tick, ReceiveSnapshot, Lose, snapshotVars
  <1> QED BY <1>1, <1>2, <1>3, <1>4, <1>5, Zenon DEF SnapshotNext

(* A revoked peer is turned away within one validity plus the tolerated    *)
(* skew of the last manager giving up the policy that enrolled it: the     *)
(* budget of consume never extends a snapshot past its manager's stamp.    *)
THEOREM RevocationHolds == SnapshotSpec => []RevocationTakesHold
  <1>1. (\E initial \in [Managers -> Policies] : SnapshotInit(initial))
          => SnapshotInv /\ RevocationTakesHold
    BY SnapshotInitial, Zenon
  <1>2. SnapshotInv /\ RevocationTakesHold /\ [SnapshotNext]_snapshotVars
          => (SnapshotInv /\ RevocationTakesHold)'
    BY SnapshotInductive, DecisionIsRecent, Zenon
  <1> QED BY <1>1, <1>2, PTL DEF SnapshotSpec

(* The consumer never replaces the policy it retains by one of a lower     *)
(* generation, nor by another of the same generation (consume).            *)
THEOREM SnapshotsOnlyAdvance == SnapshotSpec => NeverBackward
  <1>1. (\E initial \in [Managers -> Policies] : SnapshotInit(initial)) => SnapshotInv
    BY SnapshotInitial, Zenon
  <1>2. SnapshotInv /\ [SnapshotNext]_snapshotVars => SnapshotInv'
    BY SnapshotInductive, Zenon
  <1>3. SnapshotInv /\ [SnapshotNext]_snapshotVars =>
          [policy # None /\ policy' # policy =>
             policy' # None /\ GenOf[policy'] > GenOf[policy]]_snapshotVars
    <2> SUFFICES ASSUME SnapshotInv, SnapshotNext, policy # None, policy' # policy
                 PROVE  policy' # None /\ GenOf[policy'] > GenOf[policy]
      BY Zenon DEF snapshotVars
    <2>1. ASSUME NEW m \in Managers, Build(m) PROVE FALSE
      BY <2>1, Zenon DEF Build, consumer
    <2>2. ASSUME NEW m \in Managers, NEW p \in Policies, Rollout(m, p) PROVE FALSE
      BY <2>2, Zenon DEF Rollout, consumer
    <2>3. ASSUME NEW x \in Peers, Decide(x) PROVE FALSE
      BY <2>3, Zenon DEF Decide
    <2>4. ~Tick /\ ~Lose
      BY Zenon DEF Tick, Lose, ConsumeError, consumer
    <2>5. ReceiveSnapshot
      BY <2>1, <2>2, <2>3, <2>4, Zenon DEF SnapshotNext
    <2>6. reply \in Snapshots /\ Consume(reply)
      BY <2>5, Zenon DEF ReceiveSnapshot, SnapshotInv, SnapshotTypeOK
    <2>7. policy' = reply.pol /\ GenOf[policy'] > GenOf[policy]
      BY <2>6, ConsumeOutcome, Zenon DEF SnapshotInv
    <2> QED BY <2>6, <2>7, PolicyAssumption, Zenon DEF Snapshots
  <1> QED BY <1>1, <1>2, <1>3, PTL DEF SnapshotSpec, NeverBackward

-----------------------------------------------------------------------------

(* Guests.                                                                 *)

ClientStates ==
    {"idle", "absent", "entered", "refused", "waiting", "too_many", "unavailable", "gone",
     "streaming", "no_response", "timeout", "error", "broken", "clean"}
StageStates == {"none", "queued", "acquire", "await", "join", "done"}
TaskStates == {"none", "guest", "parked", "aborting", "ended"}
RespStates == {"unset", "headers", "error", "taken", "dropped"}
CompStates == {"pending", "complete", "failed", "timeout", "aborted", "lost", "taken"}
Verdicts == {"none", "complete", "failed", "timeout", "aborted"}
BodyStates == {"none", "live", "dropped", "failed", "ended"}
PipeEnds == {"open", "finished", "dropped"}

GuestRecords ==
    [client : ClientStates, stage : StageStates, task : TaskStates, resp : RespStates,
     comp : CompStates, verdict : Verdicts, body : BodyStates,
     released : BOOLEAN, frames : Nat, end : PipeEnds]

(* A completion that reports a regular end is the guest's; a guest that    *)
(* still runs has no verdict, and a request without an instance no guest.  *)
Truthful(q) ==
    /\ q.comp \in {"complete", "taken"} => q.verdict = "complete"
    /\ q.client = "clean" => q.verdict = "complete"
    /\ q.task = "guest" => q.verdict = "none"
    /\ q.stage \in {"none", "queued", "acquire"} =>
          q.verdict = "none" /\ q.task = "none" /\ q.body = "none" /\ q.client # "streaming"
    /\ q.client \in {"idle", "absent", "entered"} => q.stage = "none"

(* A request is in the channel once, while it is queued. *)
GuestInv ==
    /\ req \in [Requests -> GuestRecords]
    /\ \A r \in Requests : Truthful(req[r])
    /\ chan \in Seq(Requests)
    /\ \A i \in 1..Len(chan) : req[chan[i]].stage = "queued"
    /\ \A i, j \in 1..Len(chan) : chan[i] = chan[j] => i = j

(* Dropping the response body aborts the task and leaves the outcome alone *)
(* (runtime.rs, Drop of the response body).                                *)
LEMMA BodyDropped ==
    ASSUME NEW q \in GuestRecords
    PROVE  LET d == DroppedBody(q)
           IN  /\ d \in GuestRecords /\ d.task \in {"ended", "aborting"} /\ d.body = "dropped"
               /\ d.client = q.client /\ d.stage = q.stage /\ d.comp = q.comp /\ d.verdict = q.verdict
<1> DEFINE t == IF q.task = "ended" THEN q.task ELSE "aborting"
           d == [q EXCEPT !.body = "dropped", !.released = TRUE, !.task = t]
<1>1. t \in {"ended", "aborting"}
  BY Zenon
<1> HIDE DEF t
<1>2. d \in GuestRecords
  BY <1>1, Zenon DEF GuestRecords, TaskStates, BodyStates
<1>3. /\ d.task = t /\ d.body = "dropped"
      /\ d.client = q.client /\ d.stage = q.stage /\ d.comp = q.comp /\ d.verdict = q.verdict
  BY Zenon DEF GuestRecords
<1>4. DroppedBody(q) = d
  BY Zenon DEF DroppedBody, t
<1> QED BY <1>1, <1>2, <1>3, <1>4, Zenon

(* A caller that goes away changes no verdict and no stage of its request. *)
LEMMA LeftIsTruthful ==
    ASSUME NEW q \in GuestRecords, Truthful(q)
    PROVE  Left(q) \in GuestRecords /\ Truthful(Left(q)) /\ Left(q).stage = q.stage
<1>1. ASSUME NEW p \in GuestRecords
      PROVE  LET g == [p EXCEPT !.client = "gone"]
             IN  /\ g \in GuestRecords /\ g.client = "gone" /\ g.stage = p.stage /\ g.task = p.task
                 /\ g.comp = p.comp /\ g.verdict = p.verdict /\ g.body = p.body
  BY Zenon DEF GuestRecords, ClientStates
<1>2. CASE q.client \in {"entered", "waiting"}
  <2>1. Left(q) = [q EXCEPT !.client = "gone"]
    BY <1>2, Zenon DEF Left
  <2> QED BY <1>1, <2>1, Zenon DEF Truthful
<1>3. CASE q.client = "streaming"
  <2>1. Left(q) = [DroppedBody(q) EXCEPT !.client = "gone"]
    BY <1>3, Zenon DEF Left
  <2> DEFINE d == DroppedBody(q)
  <2>2. /\ d \in GuestRecords /\ d.task \in {"ended", "aborting"}
        /\ d.stage = q.stage /\ d.comp = q.comp /\ d.verdict = q.verdict
    BY BodyDropped, Zenon
  <2> HIDE DEF d
  <2> QED BY <1>1, <1>3, <2>1, <2>2 DEF Truthful, d
<1>4. CASE q.client \notin {"entered", "waiting", "streaming"}
  BY <1>4, Zenon DEF Left
<1> QED BY <1>2, <1>3, <1>4, Zenon

(* The end of a guest decides its own request; of the others it can only   *)
(* make the callees lose their caller.                                     *)
LEMMA StoreDropped ==
    ASSUME req \in [Requests -> GuestRecords], NEW r \in Requests, NEW v \in Verdicts \ {"none"},
           \A x \in Requests : Truthful(req[x])
    PROVE  LET d == StoreDrops(r, v)
           IN  /\ d \in [Requests -> GuestRecords]
               /\ d[r].task = "parked" /\ d[r].verdict = v /\ d[r].comp = v
               /\ d[r].client = req[r].client /\ d[r].stage = req[r].stage /\ d[r].body = req[r].body
               /\ \A x \in Requests : x # r => d[x] \in {req[x], Left(req[x])}
<1> DEFINE p == req[r]
           a == IF p.resp = "unset" THEN "dropped" ELSE p.resp
           e == IF p.end = "open" THEN "dropped" ELSE p.end
           q == [p EXCEPT !.task = "parked", !.verdict = v, !.comp = v, !.resp = a, !.end = e]
           d == StoreDrops(r, v)
<1>1. p \in GuestRecords
  BY Zenon
<1>2. a \in RespStates /\ e \in PipeEnds /\ v \in CompStates
  BY <1>1, Zenon DEF GuestRecords, RespStates, PipeEnds, CompStates, Verdicts
<1>3. d = [x \in Requests |-> IF x = r THEN q ELSE IF <<r, x>> \in Calls THEN Left(req[x]) ELSE req[x]]
  BY Zenon DEF StoreDrops
<1> HIDE DEF p, a, e, d
<1>4. q \in GuestRecords /\ q.task = "parked" /\ q.verdict = v /\ q.comp = v
      /\ q.client = p.client /\ q.stage = p.stage /\ q.body = p.body
  BY <1>1, <1>2, Zenon DEF GuestRecords, TaskStates
<1> HIDE DEF q
<1>5. \A x \in Requests : Left(req[x]) \in GuestRecords
  BY LeftIsTruthful, Zenon
<1>6. d \in [Requests -> GuestRecords] /\ d[r] = q /\ \A x \in Requests : x # r => d[x] \in {req[x], Left(req[x])}
  BY <1>3, <1>4, <1>5, Zenon
<1> QED BY <1>4, <1>6, Zenon DEF d, p

(* Every step of a request preserves the invariant, action by action.       *)
LEMMA GuestStep ==
    ASSUME GuestInv, [GuestNext]_guestVars
    PROVE  GuestInv'
<1>0. \A r \in Requests : req[r] \in GuestRecords /\ Truthful(req[r])
  BY Zenon DEF GuestInv
<1>1. ASSUME NEW r \in Requests, NEW q \in GuestRecords, Truthful(q), Becomes(r, q), chan' = chan,
             req[r].stage = "queued" => q.stage = "queued"
      PROVE  GuestInv'
  <2>1. req' \in [Requests -> GuestRecords] /\ req'[r] = q /\ \A x \in Requests : x # r => req'[x] = req[x]
    BY <1>1, Zenon DEF GuestInv, Becomes
  <2>2. \A x \in Requests : Truthful(req'[x]) /\ (req[x].stage = "queued" => req'[x].stage = "queued")
    BY <1>0, <1>1, <2>1, Zenon
  <2>3. \A i \in 1..Len(chan) : chan[i] \in Requests
    BY DEF GuestInv
  <2> QED BY <1>1, <2>1, <2>2, <2>3, Zenon DEF GuestInv
<1>2. ASSUME NEW r \in Requests, Enter(r)
      PROVE  GuestInv'
  <2>1. PICK c \in {"entered", "refused"} : Becomes(r, [req[r] EXCEPT !.client = c]) /\ chan' = chan
    BY <1>2, Zenon DEF Enter
  <2> DEFINE q == [req[r] EXCEPT !.client = c]
  <2>2. req[r].client = "idle"
    BY <1>0, <1>2, Zenon DEF Enter
  <2>3. q \in GuestRecords
        /\ q.client = c /\ q.stage = req[r].stage /\ q.task = req[r].task
        /\ q.comp = req[r].comp /\ q.verdict = req[r].verdict /\ q.body = req[r].body
    BY <1>0, <2>1, <2>2, Zenon DEF GuestRecords, ClientStates
  <2> HIDE DEF q
  <2>4. Truthful(q)
    BY <1>0, <2>1, <2>2, <2>3, Zenon DEF Truthful
  <2> QED BY <1>1, <2>1, <2>2, <2>3, <2>4, Zenon DEF q
<1>3. ASSUME NEW r \in Requests, NEW x \in Requests, CallOut(x, r)
      PROVE  GuestInv'
  <2>1. PICK c \in {"entered", "refused"} : Becomes(r, [req[r] EXCEPT !.client = c]) /\ chan' = chan
    BY <1>3, Zenon DEF CallOut
  <2> DEFINE q == [req[r] EXCEPT !.client = c]
  <2>2. req[r].client = "idle"
    BY <1>3, Zenon DEF CallOut
  <2>3. q \in GuestRecords
        /\ q.client = c /\ q.stage = req[r].stage /\ q.task = req[r].task
        /\ q.comp = req[r].comp /\ q.verdict = req[r].verdict /\ q.body = req[r].body
    BY <1>0, <2>1, Zenon DEF GuestRecords, ClientStates
  <2> HIDE DEF q
  <2>4. Truthful(q)
    BY <1>0, <2>1, <2>2, <2>3, Zenon DEF Truthful
  <2> QED BY <1>1, <2>1, <2>2, <2>3, <2>4, Zenon DEF q
<1>4. ASSUME NEW r \in Requests, Leave(r) \/ \E x \in Requests : DropAnswer(x, r)
      PROVE  GuestInv'
  <2>1. Becomes(r, Left(req[r])) /\ chan' = chan
    BY <1>4, Zenon DEF Leave, DropAnswer
  <2> QED BY <1>0, <1>1, <2>1, LeftIsTruthful, Zenon
<1>5. ASSUME NEW r \in Requests, Enqueue(r) \/ Send(r)
      PROVE  GuestInv'
  <2>0. req[r].client \in {"entered", "idle"} /\ req[r].stage = "none"
    BY <1>0, <1>5, Zenon DEF Enqueue, Send, Truthful
  <2>1. CASE /\ chan' = Append(chan, r)
             /\ Becomes(r, [req[r] EXCEPT !.client = "waiting", !.stage = "queued"])
    <3> DEFINE q == [req[r] EXCEPT !.client = "waiting", !.stage = "queued"]
    <3>1. q \in GuestRecords
          /\ q.client = "waiting" /\ q.stage = "queued" /\ q.task = req[r].task
          /\ q.comp = req[r].comp /\ q.verdict = req[r].verdict /\ q.body = req[r].body
      BY <1>0 DEF GuestRecords, ClientStates, StageStates
    <3>2. req' = [req EXCEPT ![r] = q]
      BY <2>1, Zenon DEF Becomes
    <3> HIDE DEF q
    <3>3. Truthful(q)
      BY <1>0, <2>0, <3>1, Zenon DEF Truthful
    <3>4. req' \in [Requests -> GuestRecords] /\ req'[r] = q /\ \A x \in Requests : x # r => req'[x] = req[x]
      BY <3>1, <3>2, Zenon DEF GuestInv
    <3>5. chan \in Seq(Requests) /\ \A i \in 1..Len(chan) : chan[i] \in Requests /\ chan[i] # r
      BY <2>0 DEF GuestInv
    <3>6. /\ chan' \in Seq(Requests) /\ Len(chan') = Len(chan) + 1 /\ chan'[Len(chan) + 1] = r
          /\ \A i \in 1..Len(chan) : chan'[i] = chan[i]
      BY <2>1, <3>5
    <3>7. \A i \in 1..Len(chan') : i \in 1..Len(chan) \/ i = Len(chan) + 1
      BY <3>5, <3>6
    <3>8. \A i \in 1..Len(chan') : req'[chan'[i]].stage = "queued"
      BY <3>1, <3>4, <3>5, <3>6, <3>7 DEF GuestInv
    <3>9. \A i, j \in 1..Len(chan') : chan'[i] = chan'[j] => i = j
      BY <3>5, <3>6, <3>7, Zenon DEF GuestInv
    <3> QED BY <1>0, <3>3, <3>4, <3>6, <3>8, <3>9, Zenon DEF GuestInv
  <2>2. CASE chan' = chan /\ \E c \in {"too_many", "unavailable"} : Becomes(r, [req[r] EXCEPT !.client = c])
    <3>1. PICK c \in {"too_many", "unavailable"} : Becomes(r, [req[r] EXCEPT !.client = c])
      BY <2>2, Zenon
    <3> DEFINE q == [req[r] EXCEPT !.client = c]
    <3>2. q \in GuestRecords
          /\ q.client = c /\ q.stage = req[r].stage /\ q.task = req[r].task
          /\ q.comp = req[r].comp /\ q.verdict = req[r].verdict /\ q.body = req[r].body
      BY <1>0, Zenon DEF GuestRecords, ClientStates
    <3> HIDE DEF q
    <3>3. Truthful(q)
      BY <1>0, <2>0, <3>2, Zenon DEF Truthful
    <3> QED BY <1>1, <2>0, <2>2, <3>1, <3>2, <3>3, Zenon DEF q
  <2> QED BY <1>5, <2>1, <2>2, Zenon DEF Enqueue, Send
<1>6. CASE Receive
  <2> DEFINE r == Head(chan)
             q == [req[r] EXCEPT !.stage = "acquire"]
  <2>1. chan # <<>> /\ chan' = Tail(chan) /\ chan \in Seq(Requests) /\ req' = [req EXCEPT ![r] = q]
    BY <1>6, Zenon DEF Receive, Becomes, GuestInv
  <2>2. r \in Requests /\ r = chan[1] /\ 1 \in 1..Len(chan)
    BY <2>1
  <2>3. req[r].stage = "queued"
    BY <2>2, Zenon DEF GuestInv
  <2> HIDE DEF r
  <2>4. q \in GuestRecords
        /\ q.client = req[r].client /\ q.stage = "acquire" /\ q.task = req[r].task
        /\ q.comp = req[r].comp /\ q.verdict = req[r].verdict /\ q.body = req[r].body
    BY <1>0, <2>2 DEF GuestRecords, StageStates
  <2> HIDE DEF q
  <2>5. Truthful(q)
    BY <1>0, <2>2, <2>3, <2>4, Zenon DEF Truthful
  <2>6. req' \in [Requests -> GuestRecords] /\ req'[r] = q /\ \A x \in Requests : x # r => req'[x] = req[x]
    BY <2>1, <2>2, <2>4, Zenon DEF GuestInv
  <2>7. /\ chan' \in Seq(Requests)
        /\ \A i \in 1..Len(chan') : i + 1 \in 1..Len(chan) /\ chan'[i] = chan[i + 1] /\ i + 1 # 1
    BY <2>1
  <2>8. \A i \in 1..Len(chan') : chan'[i] \in Requests /\ chan'[i] # r /\ req[chan'[i]].stage = "queued"
    BY <2>2, <2>7 DEF GuestInv
  <2>9. \A i \in 1..Len(chan') : req'[chan'[i]].stage = "queued"
    BY <2>6, <2>8, Zenon
  <2>10. \A i, j \in 1..Len(chan') : chan'[i] = chan'[j] => i = j
    BY <2>7 DEF GuestInv
  <2> QED BY <1>0, <2>5, <2>6, <2>7, <2>9, <2>10, Zenon DEF GuestInv
<1>7. CASE UNCHANGED <<chan, req>>
  BY <1>7, Zenon DEF GuestInv
<1>8. CASE HandlerEnds
  <2>1. chan' = chan /\ req' = req
    BY <1>8 DEF HandlerEnds, Unserved, Range, GuestInv
  <2> QED BY <1>7, <2>1, Zenon
<1>9. ASSUME NEW r \in Requests, Acquire(r)
      PROVE  GuestInv'
  <2> DEFINE q == [req[r] EXCEPT !.stage = "await", !.task = "guest"]
  <2>1. Becomes(r, q) /\ chan' = chan
    BY <1>9, Zenon DEF Acquire
  <2>2. req[r].stage = "acquire"
    BY <1>0, <1>9, Zenon DEF Acquire
  <2>3. q \in GuestRecords
        /\ q.client = req[r].client /\ q.stage = "await" /\ q.task = "guest"
        /\ q.comp = req[r].comp /\ q.verdict = req[r].verdict /\ q.body = req[r].body
    BY <1>0, <2>1, <2>2, Zenon DEF GuestRecords, StageStates, TaskStates
  <2> HIDE DEF q
  <2>4. Truthful(q)
    BY <1>0, <2>1, <2>2, <2>3, Zenon DEF Truthful
  <2> QED BY <1>1, <2>1, <2>2, <2>3, <2>4, Zenon
<1>10. ASSUME NEW r \in Requests, Exhausted(r)
      PROVE  GuestInv'
  <2>1. PICK c \in {req[r].client, "unavailable"} : Becomes(r, [req[r] EXCEPT !.stage = "done", !.client = c]) /\ chan' = chan
    BY <1>10, Zenon DEF Exhausted, Told
  <2> DEFINE q == [req[r] EXCEPT !.stage = "done", !.client = c]
  <2>2. req[r].stage = "acquire" /\ c \notin {"idle", "absent", "entered"}
    BY <1>0, <1>10, Zenon DEF Exhausted, Told, Truthful
  <2>3. q \in GuestRecords
        /\ q.client = c /\ q.stage = "done" /\ q.task = req[r].task
        /\ q.comp = req[r].comp /\ q.verdict = req[r].verdict /\ q.body = req[r].body
    BY <1>0, <2>1, <2>2 DEF GuestRecords, StageStates, ClientStates
  <2> HIDE DEF q
  <2>4. Truthful(q)
    BY <1>0, <2>1, <2>2, <2>3, Zenon DEF Truthful
  <2> QED BY <1>1, <2>1, <2>2, <2>3, <2>4, Zenon DEF q
<1>11. ASSUME NEW r \in Requests, SetResponse(r)
      PROVE  GuestInv'
  <2>1. PICK a \in {"headers", "error"} : Becomes(r, [req[r] EXCEPT !.resp = a]) /\ chan' = chan
    BY <1>11, Zenon DEF SetResponse
  <2> DEFINE q == [req[r] EXCEPT !.resp = a]
  <2>2. q \in GuestRecords
        /\ q.client = req[r].client /\ q.stage = req[r].stage /\ q.task = req[r].task
        /\ q.comp = req[r].comp /\ q.verdict = req[r].verdict /\ q.body = req[r].body
    BY <1>0, <2>1, Zenon DEF GuestRecords, RespStates
  <2> HIDE DEF q
  <2>3. Truthful(q)
    BY <1>0, <2>1, <2>2, Zenon DEF Truthful
  <2> QED BY <1>1, <2>1, <2>2, <2>3, Zenon DEF q
<1>12. ASSUME NEW r \in Requests, WriteFrame(r) \/ ReadFrame(r)
      PROVE  GuestInv'
  <2>0. /\ req[r].frames + 1 \in Nat
        /\ req[r].frames > 0 => req[r].frames - 1 \in Nat
    BY <1>0 DEF GuestRecords
  <2>1. PICK k \in Nat : Becomes(r, [req[r] EXCEPT !.frames = k]) /\ chan' = chan
    <3>1. CASE WriteFrame(r)
      BY <2>0, <3>1, Zenon DEF WriteFrame
    <3>2. CASE ReadFrame(r)
      BY <2>0, <3>2, Zenon DEF ReadFrame
    <3> QED BY <1>12, <3>1, <3>2, Zenon
  <2> DEFINE q == [req[r] EXCEPT !.frames = k]
  <2>2. q \in GuestRecords
        /\ q.client = req[r].client /\ q.stage = req[r].stage /\ q.task = req[r].task
        /\ q.comp = req[r].comp /\ q.verdict = req[r].verdict /\ q.body = req[r].body
    BY <1>0, <2>1, Zenon DEF GuestRecords
  <2> HIDE DEF q
  <2>3. Truthful(q)
    BY <1>0, <2>1, <2>2, Zenon DEF Truthful
  <2> QED BY <1>1, <2>1, <2>2, <2>3, Zenon DEF q
<1>13. ASSUME NEW r \in Requests, FinishBody(r)
      PROVE  GuestInv'
  <2> DEFINE q == [req[r] EXCEPT !.end = "finished"]
  <2>1. Becomes(r, q) /\ chan' = chan
    BY <1>13, Zenon DEF FinishBody
  <2>2. q \in GuestRecords
        /\ q.client = req[r].client /\ q.stage = req[r].stage /\ q.task = req[r].task
        /\ q.comp = req[r].comp /\ q.verdict = req[r].verdict /\ q.body = req[r].body
    BY <1>0, <2>1, Zenon DEF GuestRecords, PipeEnds
  <2> HIDE DEF q
  <2>3. Truthful(q)
    BY <1>0, <2>1, <2>2, Zenon DEF Truthful
  <2> QED BY <1>1, <2>1, <2>2, <2>3, Zenon
<1>14. ASSUME NEW r \in Requests, TakeFailure(r)
      PROVE  GuestInv'
  <2> DEFINE q == [req[r] EXCEPT !.stage = "join", !.released = TRUE]
  <2>1. Becomes(r, q) /\ chan' = chan
    BY <1>14, Zenon DEF TakeFailure
  <2>2. req[r].stage = "await"
    BY <1>0, <1>14, Zenon DEF TakeFailure
  <2>3. q \in GuestRecords
        /\ q.client = req[r].client /\ q.stage = "join" /\ q.task = req[r].task
        /\ q.comp = req[r].comp /\ q.verdict = req[r].verdict /\ q.body = req[r].body
    BY <1>0, <2>1, <2>2, Zenon DEF GuestRecords, StageStates
  <2> HIDE DEF q
  <2>4. Truthful(q)
    BY <1>0, <2>1, <2>2, <2>3, Zenon DEF Truthful
  <2> QED BY <1>1, <2>1, <2>2, <2>3, <2>4, Zenon
<1>15. ASSUME NEW r \in Requests, AnswerFailure(r)
      PROVE  GuestInv'
  <2>1. PICK c \in {req[r].client, "timeout", "error"} : Becomes(r, [req[r] EXCEPT !.stage = "done", !.client = c]) /\ chan' = chan
    BY <1>15, Zenon DEF AnswerFailure, Told
  <2> DEFINE q == [req[r] EXCEPT !.stage = "done", !.client = c]
  <2>2. req[r].stage = "join" /\ c \notin {"idle", "absent", "entered"}
    BY <1>0, <1>15, Zenon DEF AnswerFailure, Told, Truthful
  <2>3. q \in GuestRecords
        /\ q.client = c /\ q.stage = "done" /\ q.task = req[r].task
        /\ q.comp = req[r].comp /\ q.verdict = req[r].verdict /\ q.body = req[r].body
    BY <1>0, <2>1, <2>2 DEF GuestRecords, StageStates, ClientStates
  <2> HIDE DEF q
  <2>4. Truthful(q)
    BY <1>0, <2>1, <2>2, <2>3, Zenon DEF Truthful
  <2> QED BY <1>1, <2>1, <2>2, <2>3, <2>4, Zenon DEF q
<1>16. ASSUME NEW r \in Requests, req' \in [Requests -> GuestRecords], chan' = chan,
             Truthful(req'[r]), req'[r].stage = req[r].stage,
             \A x \in Requests : x # r => req'[x] \in {req[x], Left(req[x])}
      PROVE  GuestInv'
  <2>1. \A x \in Requests : Truthful(req'[x]) /\ req'[x].stage = req[x].stage
    BY <1>0, <1>16, LeftIsTruthful, Zenon
  <2>2. \A k \in 1..Len(chan) : chan[k] \in Requests
    BY DEF GuestInv
  <2> QED BY <1>16, <2>1, <2>2, Zenon DEF GuestInv
<1>17. ASSUME NEW r \in Requests, GuestReturns(r) \/ GuestTimeout(r)
      PROVE  GuestInv'
  <2>1. PICK v \in Verdicts \ {"none"} : req' = StoreDrops(r, v) /\ chan' = chan /\ v # "aborted"
    BY <1>17, Zenon DEF GuestReturns, GuestTimeout, Verdicts
  <2>2. req[r].task = "guest"
    BY <1>17, Zenon DEF GuestReturns, GuestTimeout, Runs
  <2> DEFINE d == StoreDrops(r, v)
  <2>3. /\ d \in [Requests -> GuestRecords]
        /\ d[r].task = "parked" /\ d[r].verdict = v /\ d[r].comp = v
        /\ d[r].client = req[r].client /\ d[r].stage = req[r].stage /\ d[r].body = req[r].body
        /\ \A x \in Requests : x # r => d[x] \in {req[x], Left(req[x])}
    BY <1>0, StoreDropped, Zenon DEF GuestInv
  <2> HIDE DEF d
  <2>4. Truthful(d[r])
    BY <1>0, <2>1, <2>2, <2>3, Zenon DEF Truthful, Verdicts
  <2> QED BY <1>16, <2>1, <2>3, <2>4, Zenon DEF d
<1>18. ASSUME NEW r \in Requests, TaskEnds(r)
      PROVE  GuestInv'
  <2>1. chan' = chan /\ req[r].task \in {"parked", "aborting"}
    BY <1>18, Zenon DEF TaskEnds
  <2>2. CASE req[r].verdict # "none"
    <3> DEFINE q == [req[r] EXCEPT !.task = "ended"]
    <3>1. Becomes(r, q)
      BY <1>18, <2>2, Zenon DEF TaskEnds, Becomes
    <3>2. q \in GuestRecords
          /\ q.client = req[r].client /\ q.stage = req[r].stage /\ q.task = "ended"
          /\ q.comp = req[r].comp /\ q.verdict = req[r].verdict /\ q.body = req[r].body
      BY <1>0, Zenon DEF GuestRecords, TaskStates
    <3> HIDE DEF q
    <3>3. Truthful(q)
      BY <1>0, <2>1, <3>2, Zenon DEF Truthful
    <3> QED BY <1>1, <2>1, <3>1, <3>2, <3>3, Zenon
  <2>3. CASE req[r].verdict = "none"
    <3> DEFINE d == StoreDrops(r, "aborted")
               q == [d[r] EXCEPT !.task = "ended", !.comp = "lost"]
    <3>1. /\ d \in [Requests -> GuestRecords]
          /\ d[r].verdict = "aborted"
          /\ d[r].client = req[r].client /\ d[r].stage = req[r].stage /\ d[r].body = req[r].body
          /\ \A x \in Requests : x # r => d[x] \in {req[x], Left(req[x])}
      BY <1>0, StoreDropped DEF Verdicts, GuestInv
    <3>2. req' = [d EXCEPT ![r].task = "ended", ![r].comp = "lost"]
      BY <1>18, <2>3, Zenon DEF TaskEnds
    <3> HIDE DEF d
    <3>3. q \in GuestRecords
          /\ q.client = d[r].client /\ q.stage = d[r].stage /\ q.task = "ended"
          /\ q.comp = "lost" /\ q.verdict = d[r].verdict /\ q.body = d[r].body
      BY <3>1 DEF GuestRecords, TaskStates, CompStates
    <3>4. req' = [d EXCEPT ![r] = q]
      BY <3>1, <3>2, Zenon
    <3> HIDE DEF q
    <3>5. Truthful(q)
      BY <1>0, <2>1, <2>3, <3>1, <3>3 DEF Truthful
    <3>6. req' \in [Requests -> GuestRecords] /\ req'[r] = q /\ \A x \in Requests : x # r => req'[x] = d[x]
      BY <3>1, <3>3, <3>4, Zenon
    <3> QED BY <1>16, <2>1, <3>1, <3>3, <3>5, <3>6, Zenon
  <2> QED BY <2>2, <2>3, Zenon
<1>19. ASSUME NEW r \in Requests, TakeResponse(r)
      PROVE  GuestInv'
  <2> DEFINE t == [req[r] EXCEPT !.resp = "taken", !.stage = "done", !.body = "live"]
  <2>1. /\ req[r].stage = "await" /\ chan' = chan
        /\ Becomes(r, IF req[r].client = "waiting" THEN [t EXCEPT !.client = "streaming"] ELSE DroppedBody(t))
    BY <1>19, Zenon DEF TakeResponse
  <2>2. t \in GuestRecords
        /\ t.client = req[r].client /\ t.stage = "done" /\ t.task = req[r].task
        /\ t.comp = req[r].comp /\ t.verdict = req[r].verdict
    BY <1>0, Zenon DEF GuestRecords, StageStates, BodyStates, RespStates
  <2>3. req[r].client \notin {"idle", "absent", "entered"}
    BY <1>0, <2>1, Zenon DEF Truthful
  <2> HIDE DEF t
  <2>4. CASE req[r].client = "waiting"
    <3> DEFINE q == [t EXCEPT !.client = "streaming"]
    <3>1. q \in GuestRecords
          /\ q.client = "streaming" /\ q.stage = t.stage /\ q.task = t.task
          /\ q.comp = t.comp /\ q.verdict = t.verdict
      BY <2>2, Zenon DEF GuestRecords, ClientStates
    <3> HIDE DEF q
    <3>2. Truthful(q)
      BY <1>0, <2>2, <3>1, Zenon DEF Truthful
    <3> QED BY <1>1, <2>1, <2>4, <3>1, <3>2, Zenon DEF q
  <2>5. CASE req[r].client # "waiting"
    <3> DEFINE q == DroppedBody(t)
    <3>1. /\ q \in GuestRecords /\ q.task \in {"ended", "aborting"}
          /\ q.client = t.client /\ q.stage = t.stage /\ q.comp = t.comp /\ q.verdict = t.verdict
      BY <2>2, BodyDropped, Zenon
    <3> HIDE DEF q
    <3>2. Truthful(q)
      BY <1>0, <2>2, <2>3, <3>1, Zenon DEF Truthful
    <3> QED BY <1>1, <2>1, <2>5, <3>1, <3>2, Zenon DEF q
  <2> QED BY <2>4, <2>5, Zenon
<1>20. ASSUME NEW r \in Requests, PollCompletion(r) \/ ReadError(r) \/ ReadEnd(r)
      PROVE  GuestInv'
  <2>1. chan' = chan /\ req[r].body = "live"
    BY <1>20, Zenon DEF PollCompletion, ReadError, ReadEnd, Polls
  <2>2. req[r].stage \notin {"none", "queued", "acquire"} /\ req[r].client \notin {"idle", "absent", "entered"}
    BY <1>0, <2>1, Zenon DEF Truthful
  <2>3. CASE req[r].comp = "complete" /\ Becomes(r, [req[r] EXCEPT !.comp = "taken"])
    <3> DEFINE q == [req[r] EXCEPT !.comp = "taken"]
    <3>1. q \in GuestRecords
          /\ q.client = req[r].client /\ q.stage = req[r].stage /\ q.task = req[r].task
          /\ q.comp = "taken" /\ q.verdict = req[r].verdict /\ q.body = req[r].body
      BY <1>0, Zenon DEF GuestRecords, CompStates
    <3> HIDE DEF q
    <3>2. Truthful(q)
      BY <1>0, <2>3, <3>1, Zenon DEF Truthful
    <3> QED BY <1>1, <2>1, <2>2, <2>3, <3>1, <3>2, Zenon DEF q
  <2>4. CASE Becomes(r, [req[r] EXCEPT !.released = TRUE])
    <3> DEFINE q == [req[r] EXCEPT !.released = TRUE]
    <3>1. q \in GuestRecords
          /\ q.client = req[r].client /\ q.stage = req[r].stage /\ q.task = req[r].task
          /\ q.comp = req[r].comp /\ q.verdict = req[r].verdict /\ q.body = req[r].body
      BY <1>0, Zenon DEF GuestRecords
    <3> HIDE DEF q
    <3>2. Truthful(q)
      BY <1>0, <3>1, Zenon DEF Truthful
    <3> QED BY <1>1, <2>1, <2>4, <3>1, <3>2, Zenon DEF q
  <2>5. CASE req[r].comp = "taken" /\ Becomes(r, [req[r] EXCEPT !.client = "clean", !.body = "ended"])
    <3> DEFINE q == [req[r] EXCEPT !.client = "clean", !.body = "ended"]
    <3>1. q \in GuestRecords
          /\ q.client = "clean" /\ q.stage = req[r].stage /\ q.task = req[r].task
          /\ q.comp = req[r].comp /\ q.verdict = req[r].verdict
      BY <1>0 DEF GuestRecords, ClientStates, BodyStates
    <3> HIDE DEF q
    <3>2. Truthful(q)
      BY <1>0, <2>2, <2>5, <3>1, Zenon DEF Truthful
    <3> QED BY <1>1, <2>1, <2>2, <2>5, <3>1, <3>2, Zenon DEF q
  <2> DEFINE d == DroppedBody(req[r])
  <2>6. /\ d \in GuestRecords /\ d.task \in {"ended", "aborting"}
        /\ d.client = req[r].client /\ d.stage = req[r].stage /\ d.comp = req[r].comp
        /\ d.verdict = req[r].verdict
    BY <1>0, BodyDropped, Zenon
  <2> HIDE DEF d
  <2>7. CASE Becomes(r, [d EXCEPT !.client = "broken", !.body = "failed"])
    <3> DEFINE q == [d EXCEPT !.client = "broken", !.body = "failed"]
    <3>1. q \in GuestRecords
          /\ q.client = "broken" /\ q.stage = d.stage /\ q.task = d.task
          /\ q.comp = d.comp /\ q.verdict = d.verdict
      BY <2>6, Zenon DEF GuestRecords, ClientStates, BodyStates
    <3> HIDE DEF q
    <3>2. Truthful(q)
      BY <1>0, <2>2, <2>6, <3>1, Zenon DEF Truthful
    <3> QED BY <1>1, <2>1, <2>2, <2>7, <3>1, <3>2, Zenon DEF q
  <2>8. CASE req[r].comp = "taken" /\ Becomes(r, [d EXCEPT !.client = "clean"])
    <3> DEFINE q == [d EXCEPT !.client = "clean"]
    <3>1. q \in GuestRecords
          /\ q.client = "clean" /\ q.stage = d.stage /\ q.task = d.task
          /\ q.comp = d.comp /\ q.verdict = d.verdict
      BY <2>6, Zenon DEF GuestRecords, ClientStates
    <3> HIDE DEF q
    <3>2. Truthful(q)
      BY <1>0, <2>2, <2>6, <2>8, <3>1, Zenon DEF Truthful
    <3> QED BY <1>1, <2>1, <2>2, <2>8, <3>1, <3>2, Zenon DEF q
  <2> QED BY <1>20, <2>3, <2>4, <2>5, <2>7, <2>8, Zenon DEF PollCompletion, ReadError, ReadEnd, d
<1> QED
  BY <1>2, <1>3, <1>4, <1>5, <1>6, <1>7, <1>8, <1>9, <1>10, <1>11, <1>12, <1>13, <1>14, <1>15, <1>17, <1>18, <1>19, <1>20, Zenon
     DEF GuestNext, guestVars, CloseGate, CancelModule, Poll

(* A response whose streamed body ends without an error comes from a guest *)
(* that returned (runtime.rs poll_frame, engine.rs dispatch_request): for  *)
(* any number of requests, nested calls, instances and frames in the pipe, *)
(* whichever of guest, timeout and caller ends first.                      *)
THEOREM CleanEndWasComplete == RequestSpec => []CleanEndIsComplete
<1>1. (\E traffic \in SUBSET Requests, instances \in Nat : GuestInit(traffic, instances)) => GuestInv
  <2> SUFFICES ASSUME NEW traffic \in SUBSET Requests, NEW instances \in Nat, GuestInit(traffic, instances)
               PROVE  GuestInv
    BY Zenon
  <2> DEFINE q == [Unsent EXCEPT !.client = "absent"]
  <2>1. Unsent \in GuestRecords /\ Truthful(Unsent)
    BY Zenon DEF Unsent, GuestRecords, ClientStates, StageStates, TaskStates, RespStates, CompStates,
           Verdicts, BodyStates, PipeEnds, Truthful
  <2>2. q \in GuestRecords /\ Truthful(q)
    BY Zenon DEF Unsent, GuestRecords, ClientStates, StageStates, TaskStates, RespStates, CompStates,
           Verdicts, BodyStates, PipeEnds, Truthful
  <2> HIDE DEF q
  <2>3. req = [r \in Requests |-> IF r \in traffic THEN Unsent ELSE q] /\ chan = <<>>
    BY Zenon DEF GuestInit, q
  <2> QED BY <2>1, <2>2, <2>3 DEF GuestInv
<1>2. GuestInv /\ [GuestNext]_guestVars => GuestInv'
  BY GuestStep, Zenon
<1>3. GuestInv => CleanEndIsComplete
  BY Zenon DEF GuestInv, Truthful, CleanEndIsComplete
<1> QED
  BY <1>1, <1>2, <1>3, PTL DEF RequestSpec

------------------------------------------------------------------------------
HostEvent == {"text", "usage", "stop", "error"}

Final == {"stop", "error"}

Pendings == {<<>>, <<"text">>, <<"usage", "stop">>, <<"stop">>, <<"error">>}

StreamRecords ==
    [guest : {"none", "invalid", "refused", "over_limit", "open", "dropped"},
     producer : {"none", "reading", "returning", "ended"}, pending : Pendings, chan : Seq(HostEvent),
     terminal : BOOLEAN, events : Nat, finished : BOOLEAN, told : SUBSET (HostEvent \cup {"end"})]

(* A stop or an error is on its way to the guest, or there. *)
Comes(p) ==
    \/ p.told \cap Final # {}
    \/ \E i \in 1..Len(p.chan) : p.chan[i] \in Final
    \/ p.pending \in {<<"usage", "stop">>, <<"stop">>, <<"error">>}

(* While the guest listens, a stop or an error is underway from the moment *)
(* the producer has sent its final delta or decided to return.             *)
Delivers(p) ==
    /\ p.guest = "open" /\ (p.terminal \/ p.producer \in {"returning", "ended"}) => Comes(p)
    /\ p.producer = "ended" => p.pending = <<>>
    /\ p.finished \/ "end" \in p.told => p.told \cap Final # {}
    /\ p.guest \notin {"open", "dropped"} =>
          p.producer = "none" /\ p.pending = <<>> /\ ~p.terminal /\ ~p.finished /\ p.told = {}

StreamInv ==
    /\ stream \in [Streams -> StreamRecords]
    /\ \A s \in Streams : Delivers(stream[s])

(* Every event of a completion, and every read of it, keeps StreamInv.     *)
LEMMA StreamStep ==
    ASSUME StreamInv, [StreamNext]_stream
    PROVE  StreamInv'
<1>1. ASSUME NEW s \in Streams, NEW q \in StreamRecords, Delivers(q), stream' = [stream EXCEPT ![s] = q]
      PROVE  StreamInv'
  BY <1>1, Zenon DEF StreamInv
<1>2. CASE UNCHANGED stream
  BY <1>2, Zenon DEF StreamInv
<1> SUFFICES ASSUME NEW s \in Streams,
                    \/ RefuseInvalid(s) \/ ProviderRefuses(s) \/ CompleteStream(s) \/ ReadEvent(s)
                    \/ SendEvent(s) \/ ProducerEnds(s) \/ NextEvent(s) \/ DropStream(s)
             PROVE  StreamInv'
  BY <1>2, Zenon DEF StreamNext
<1> DEFINE p == stream[s]
<1>3. p \in StreamRecords /\ Delivers(p)
  BY Zenon DEF StreamInv
<1> HIDE DEF p
<1>4. CASE RefuseInvalid(s) \/ ProviderRefuses(s) \/ CompleteStream(s)
  <2>1. p.producer = "none" /\ p.pending = <<>> /\ ~p.terminal /\ ~p.finished /\ p.told = {}
    BY <1>3, <1>4, Zenon DEF RefuseInvalid, ProviderRefuses, CompleteStream, Delivers, p
  <2>2. PICK g \in {"invalid", "refused", "over_limit"} :
           \/ stream' = [stream EXCEPT ![s] = [p EXCEPT !.guest = g]]
           \/ stream' = [stream EXCEPT ![s] = [p EXCEPT !.guest = "open", !.producer = "reading"]]
    BY <1>4, Zenon DEF RefuseInvalid, ProviderRefuses, CompleteStream, p
  <2>3. [p EXCEPT !.guest = g] \in StreamRecords /\ Delivers([p EXCEPT !.guest = g])
    BY <1>3, <2>1, Zenon DEF StreamRecords, Delivers
  <2>4. LET q == [p EXCEPT !.guest = "open", !.producer = "reading"]
        IN  q \in StreamRecords /\ Delivers(q)
    BY <1>3, <2>1, Zenon DEF StreamRecords, Delivers
  <2> QED BY <1>1, <2>2, <2>3, <2>4, Zenon
<1>5. CASE ReadEvent(s)
  <2>1. PICK e \in Parsed, n \in {p.events, p.events + 1}, d \in {p.producer, "returning"} :
           /\ stream' = [stream EXCEPT ![s] = [p EXCEPT !.events = n,
                                                 !.pending = HostEvents(e, p.terminal),
                                                 !.terminal = @ \/ e = "message_delta",
                                                 !.producer = d]]
           /\ d = "returning" => e \in Ends \/ p.producer = "returning"
    BY <1>5, Zenon DEF ReadEvent, p
  <2>2. /\ p.producer = "reading" /\ p.pending = <<>>
    BY <1>5, Zenon DEF ReadEvent, p
  <2> DEFINE h == HostEvents(e, p.terminal)
             t == p.terminal \/ e = "message_delta"
             q == [p EXCEPT !.events = n, !.pending = h, !.terminal = t, !.producer = d]
  <2>3. /\ h \in Pendings
        /\ e = "message_delta" => h = <<"usage", "stop">>
        /\ e \in Ends => h = <<"error">> \/ p.terminal
    BY <2>1, Zenon DEF HostEvents, Pendings, Parsed, Ends
  <2>4. n \in Nat /\ t \in BOOLEAN /\ d \in {"reading", "returning"}
    BY <1>3, <2>1, <2>2 DEF StreamRecords
  <2> HIDE DEF h, t
  <2>5. /\ q \in StreamRecords /\ q.pending = h /\ q.terminal = t /\ q.producer = d
        /\ q.guest = p.guest /\ q.chan = p.chan /\ q.told = p.told /\ q.finished = p.finished
    BY <1>3, <2>3, <2>4, Zenon DEF StreamRecords
  <2>6. stream' = [stream EXCEPT ![s] = q]
    BY <2>1, Zenon DEF h, t
  <2>7. p.guest \in {"open", "dropped"}
    BY <1>3, <2>2, Zenon DEF Delivers, Unopened, StreamRecords
  <2> HIDE DEF q
  <2>8. p.guest = "open" /\ (t \/ d = "returning") => Comes(q)
    BY <1>3, <2>1, <2>2, <2>3, <2>5 DEF Delivers, Comes, t
  <2>9. Delivers(q)
    BY <1>3, <2>4, <2>5, <2>7, <2>8, Zenon DEF Delivers
  <2> QED BY <1>1, <2>5, <2>6, <2>9, Zenon
<1>6. CASE SendEvent(s)
  <2>1. p.pending # <<>>
    BY <1>6, Zenon DEF SendEvent, p
  <2>2. /\ Tail(p.pending) \in Pendings /\ Head(p.pending) \in HostEvent
        /\ p.pending \in {<<"usage", "stop">>, <<"stop">>, <<"error">>} =>
              \/ Head(p.pending) \in Final
              \/ Tail(p.pending) = <<"stop">>
    <3>1. /\ Tail(<<"text">>) = <<>> /\ Tail(<<"stop">>) = <<>> /\ Tail(<<"error">>) = <<>>
          /\ Tail(<<"usage", "stop">>) = <<"stop">>
      OBVIOUS
    <3>2. /\ Head(<<"text">>) = "text" /\ Head(<<"stop">>) = "stop" /\ Head(<<"error">>) = "error"
          /\ Head(<<"usage", "stop">>) = "usage"
      OBVIOUS
    <3>3. p.pending \in Pendings \ {<<>>}
      BY <1>3, <2>1, Zenon DEF StreamRecords
    <3>4. p.pending \in {<<"text">>, <<"usage", "stop">>, <<"stop">>, <<"error">>}
      BY <3>3, Zenon DEF Pendings
    <3>5. CASE p.pending = <<"text">>
      BY <3>1, <3>2, <3>5, Zenon DEF Pendings, HostEvent
    <3>6. CASE p.pending = <<"usage", "stop">>
      BY <3>1, <3>2, <3>6, Zenon DEF Pendings, HostEvent
    <3>7. CASE p.pending = <<"stop">>
      BY <3>1, <3>2, <3>7, Zenon DEF Pendings, HostEvent, Final
    <3>8. CASE p.pending = <<"error">>
      BY <3>1, <3>2, <3>8, Zenon DEF Pendings, HostEvent, Final
    <3> QED BY <3>4, <3>5, <3>6, <3>7, <3>8, Zenon
  <2>3. CASE p.guest = "open" /\ stream' = [stream EXCEPT ![s] =
                [p EXCEPT !.pending = Tail(@), !.chan = Append(@, Head(p.pending))]]
    <3> DEFINE q == [p EXCEPT !.pending = Tail(p.pending), !.chan = Append(p.chan, Head(p.pending))]
    <3>0. Append(p.chan, Head(p.pending)) \in Seq(HostEvent)
      BY <1>3, <2>2 DEF StreamRecords
    <3>1. /\ q \in StreamRecords /\ q.pending = Tail(p.pending) /\ q.chan = Append(p.chan, Head(p.pending))
          /\ q.guest = p.guest /\ q.producer = p.producer /\ q.terminal = p.terminal
          /\ q.told = p.told /\ q.finished = p.finished
      <4> DEFINE h == Tail(p.pending)
                 k == Append(p.chan, Head(p.pending))
      <4>1. h \in Pendings /\ k \in Seq(HostEvent)
        BY <2>2, <3>0, Zenon
      <4> HIDE DEF h, k
      <4>2. LET r == [p EXCEPT !.pending = h, !.chan = k]
            IN  /\ r \in StreamRecords /\ r.pending = h /\ r.chan = k
                /\ r.guest = p.guest /\ r.producer = p.producer /\ r.terminal = p.terminal
                /\ r.told = p.told /\ r.finished = p.finished
        BY <1>3, <4>1, Zenon DEF StreamRecords
      <4> QED BY <4>2, Zenon DEF h, k
    <3>2. stream' = [stream EXCEPT ![s] = q]
      BY <2>3, Zenon
    <3> HIDE DEF q
    <3>3. p.chan \in Seq(HostEvent)
      BY <1>3, Zenon DEF StreamRecords
    <3>4. /\ \A i \in 1..Len(p.chan) : i \in 1..Len(q.chan) /\ q.chan[i] = p.chan[i]
          /\ Len(p.chan) + 1 \in 1..Len(q.chan) /\ q.chan[Len(p.chan) + 1] = Head(p.pending)
      BY <2>2, <3>1, <3>3
    <3>5. Comes(p) => Comes(q)
      BY <2>2, <3>1, <3>4, Zenon DEF Comes
    <3>6. Delivers(q)
      BY <1>3, <2>1, <2>3, <3>1, <3>5, Zenon DEF Delivers
    <3> QED BY <1>1, <3>1, <3>2, <3>6, Zenon
  <2>4. CASE p.guest = "dropped" /\ \E d \in {p.producer, "returning"} :
               stream' = [stream EXCEPT ![s] = [p EXCEPT !.pending = Tail(@), !.producer = d]]
    <3>1. PICK d \in {p.producer, "returning"} :
               stream' = [stream EXCEPT ![s] = [p EXCEPT !.pending = Tail(@), !.producer = d]]
      BY <2>4, Zenon
    <3> DEFINE q == [p EXCEPT !.pending = Tail(p.pending), !.producer = d]
    <3>2. /\ q \in StreamRecords /\ q.producer = d /\ q.guest = "dropped"
          /\ q.told = p.told /\ q.finished = p.finished /\ p.producer # "ended"
      BY <1>3, <2>1, <2>2, <2>4, Zenon DEF StreamRecords, Delivers
    <3>3. stream' = [stream EXCEPT ![s] = q]
      BY <3>1, Zenon
    <3> HIDE DEF q
    <3>4. Delivers(q)
      BY <1>3, <3>1, <3>2, Zenon DEF Delivers
    <3> QED BY <1>1, <3>2, <3>3, <3>4, Zenon
  <2>5. [p EXCEPT !.pending = Tail(@), !.producer = p.producer] = [p EXCEPT !.pending = Tail(@)]
    BY <1>3, Zenon DEF StreamRecords
  <2> QED BY <1>6, <2>3, <2>4, <2>5 DEF SendEvent, p
<1>7. CASE ProducerEnds(s)
  <2> DEFINE q == [p EXCEPT !.producer = "ended"]
  <2>1. p.producer = "returning" /\ p.pending = <<>> /\ stream' = [stream EXCEPT ![s] = q]
    BY <1>7, Zenon DEF ProducerEnds, p
  <2>2. /\ q \in StreamRecords /\ q.producer = "ended" /\ q.guest = p.guest /\ q.pending = p.pending
        /\ q.chan = p.chan /\ q.told = p.told /\ q.finished = p.finished /\ q.terminal = p.terminal
    BY <1>3, Zenon DEF StreamRecords
  <2>3. p.guest \in {"open", "dropped"}
    BY <1>3, <2>1, Zenon DEF Delivers, Unopened, StreamRecords
  <2> HIDE DEF q
  <2>4. Delivers(q)
    BY <1>3, <2>1, <2>2, <2>3, Zenon DEF Delivers, Comes
  <2> QED BY <1>1, <2>1, <2>2, <2>4, Zenon
<1>8. CASE NextEvent(s)
  <2>1. p.guest = "open"
    BY <1>8, Zenon DEF NextEvent, p
  <2>2. CASE /\ p.chan # <<>>
             /\ stream' = [stream EXCEPT ![s] =
                  [p EXCEPT !.chan = Tail(@), !.told = @ \cup {Head(p.chan)},
                            !.finished = Head(p.chan) = "error"]]
    <3> DEFINE q == [p EXCEPT !.chan = Tail(p.chan), !.told = p.told \cup {Head(p.chan)},
                              !.finished = Head(p.chan) = "error"]
    <3>1. p.chan \in Seq(HostEvent) /\ p.chan # <<>>
      BY <1>3, <2>2, Zenon DEF StreamRecords
    <3>2. Tail(p.chan) \in Seq(HostEvent) /\ Head(p.chan) \in HostEvent
      BY <3>1
    <3>3. /\ q \in StreamRecords /\ q.chan = Tail(p.chan) /\ q.told = p.told \cup {Head(p.chan)}
          /\ q.finished = (Head(p.chan) = "error") /\ q.guest = p.guest /\ q.pending = p.pending
          /\ q.producer = p.producer /\ q.terminal = p.terminal
      BY <1>3, <3>2, Zenon DEF StreamRecords
    <3>4. \A i \in 1..Len(p.chan) : \/ p.chan[i] = Head(p.chan)
                                    \/ i - 1 \in 1..Len(Tail(p.chan)) /\ Tail(p.chan)[i - 1] = p.chan[i]
      BY <3>1
    <3>5. stream' = [stream EXCEPT ![s] = q]
      BY <2>2, Zenon
    <3> HIDE DEF q
    <3>6. Comes(p) => Comes(q)
      BY <3>3, <3>4, Zenon DEF Comes
    <3>7. Delivers(q)
      BY <1>3, <2>1, <3>2, <3>3, <3>6, Zenon DEF Delivers, Final, HostEvent
    <3> QED BY <1>1, <3>3, <3>5, <3>7, Zenon
  <2>3. CASE /\ p.finished \/ (p.chan = <<>> /\ p.producer = "ended")
             /\ stream' = [stream EXCEPT ![s] = [p EXCEPT !.finished = TRUE, !.told = @ \cup {"end"}]]
    <3> DEFINE q == [p EXCEPT !.finished = TRUE, !.told = p.told \cup {"end"}]
    <3>1. /\ q \in StreamRecords /\ q.chan = p.chan /\ q.told = p.told \cup {"end"}
          /\ q.guest = p.guest /\ q.pending = p.pending
          /\ q.producer = p.producer /\ q.terminal = p.terminal
      BY <1>3, Zenon DEF StreamRecords
    <3>2. p.told \cap Final # {}
      BY <1>3, <2>1, <2>3 DEF Delivers, Comes
    <3>3. stream' = [stream EXCEPT ![s] = q]
      BY <2>3, Zenon
    <3> HIDE DEF q
    <3>4. Delivers(q)
      BY <1>3, <2>1, <3>1, <3>2, Zenon DEF Delivers, Comes
    <3> QED BY <1>1, <3>1, <3>3, <3>4, Zenon
  <2> QED BY <1>8, <2>2, <2>3, Zenon DEF NextEvent, p
<1>9. CASE DropStream(s)
  <2> DEFINE q == [p EXCEPT !.guest = "dropped", !.chan = <<>>]
  <2>1. stream' = [stream EXCEPT ![s] = q]
    BY <1>9, Zenon DEF DropStream, p
  <2>2. /\ q \in StreamRecords /\ q.guest = "dropped" /\ q.pending = p.pending
        /\ q.producer = p.producer /\ q.told = p.told /\ q.finished = p.finished
    <3> DEFINE none == <<>>
    <3>1. none \in Seq(HostEvent)
      OBVIOUS
    <3> HIDE DEF none
    <3>2. LET r == [p EXCEPT !.guest = "dropped", !.chan = none]
          IN  /\ r \in StreamRecords /\ r.guest = "dropped" /\ r.pending = p.pending
              /\ r.producer = p.producer /\ r.told = p.told /\ r.finished = p.finished
      BY <1>3, <3>1, Zenon DEF StreamRecords
    <3> QED BY <3>2, Zenon DEF none
  <2> HIDE DEF q
  <2>3. Delivers(q)
    BY <1>3, <2>2, Zenon DEF Delivers
  <2> QED BY <1>1, <2>1, <2>2, <2>3, Zenon
<1> QED BY <1>4, <1>5, <1>6, <1>7, <1>8, <1>9, Zenon

(* A guest that is told the end of a completion was told its stop or an    *)
(* error before (llm.rs complete_stream and next): for any number of       *)
(* streams, events and places in the channel.                              *)
THEOREM StreamEndFollowsStop == StreamSpec => []EndFollowsStop
<1>1. StreamInit => StreamInv
  <2>1. <<>> \in Seq(HostEvent)
    OBVIOUS
  <2>2. Unopened \in StreamRecords
    BY <2>1, Zenon DEF Unopened, StreamRecords, Pendings
  <2>3. Delivers(Unopened)
    BY Zenon DEF Unopened, Delivers
  <2> QED BY <2>2, <2>3, Zenon DEF StreamInit, StreamInv
<1>2. StreamInv /\ [StreamNext]_stream => StreamInv'
  BY StreamStep, Zenon
<1>3. StreamInv => EndFollowsStop
  BY Zenon DEF StreamInv, Delivers, EndFollowsStop, Final
<1> QED
  BY <1>1, <1>2, <1>3, PTL DEF StreamSpec
=============================================================================
