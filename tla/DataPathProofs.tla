--------------------------- MODULE DataPathProofs ---------------------------
(***************************************************************************)
(* What a request meets on its way: the indexes and circuit breakers the   *)
(* proxies forward it with (ProxyRequests), for any proxies, tables and    *)
(* callers, and the sessions and transactions of the guest that serves it  *)
(* (DatabaseSession), for any guests, connections and statements.          *)
(***************************************************************************)
EXTENDS ProxyRequests, DatabaseSession, SequenceTheorems, TLAPS

-----------------------------------------------------------------------------
(* ProxyRequests: the published index and the breaker registry.            *)

(* Every breaker there is is one of a finite list of its address. *)
Listed(b) == \E S : b \in [Proxies -> [Addresses -> Seq(S)]]

(* What an index forwards through: the registered breaker of each address. *)
Forwards(held, index) ==
    \A a \in Active(index.candidates) : held[a] = index.handle[a] /\ held[a] # NoBreaker

(* The index that is published, and one that is prepared, both forward     *)
(* through the registry.                                                   *)
IndexInv ==
    /\ Listed(breaker)
    /\ plan \in Plans
    /\ table \in [Proxies -> {table[p] : p \in Proxies}]
    /\ refresh \in [Proxies -> {refresh[p] : p \in Proxies}]
    /\ registry \in [Proxies -> [Addresses -> Nat]]
    /\ \A p \in Proxies :
          /\ Forwards(registry[p], table[p])
          /\ refresh[p].pc = "prepared" => Forwards(registry[p], refresh[p].table)

(* Replacing one place of one list, or no place at all. *)
LEMMA PlaceFits ==
    ASSUME NEW S, NEW s \in Seq(S), NEW n, NEW b
    PROVE  [s EXCEPT ![n] = b] \in Seq(S \cup {b})
<1>1. Len(s) \in Nat /\ s \in [1..Len(s) -> S]
  OBVIOUS
<1>2. [s EXCEPT ![n] = b] \in [1..Len(s) -> S \cup {b}]
  BY <1>1, Zenon
<1> QED BY <1>1, <1>2, SeqDef

(* A list is one over any larger set.                                      *)
LEMMA ListGrows ==
    ASSUME NEW S, NEW T, S \subseteq T, NEW s \in Seq(S)
    PROVE  s \in Seq(T)
OBVIOUS

(* The breakers change one at a time.                                      *)
LEMMA UpdateFits ==
    ASSUME Listed(breaker), NEW o, NEW t, NEW n, NEW b,
           breaker' = [breaker EXCEPT ![o][t][n] = b]
    PROVE  Listed(breaker')
<1>1. PICK S : breaker \in [Proxies -> [Addresses -> Seq(S)]]
  BY Zenon DEF Listed
<1> DEFINE T == S \cup {b}
<1>2. \A p \in Proxies, a \in Addresses : breaker[p][a] \in Seq(T)
  BY <1>1, ListGrows
<1>3. \A p \in Proxies, a \in Addresses : [breaker[p][a] EXCEPT ![n] = b] \in Seq(T)
  BY <1>1, PlaceFits, Zenon
<1> HIDE DEF T
<1>4. \A p \in Proxies : [breaker[p] EXCEPT ![t] = [breaker[p][t] EXCEPT ![n] = b]]
                            \in [Addresses -> Seq(T)]
  BY <1>1, <1>2, <1>3, Zenon
<1>5. breaker' = [breaker EXCEPT ![o] = [breaker[o] EXCEPT ![t] = [breaker[o][t] EXCEPT ![n] = b]]]
  BY Zenon
<1>6. breaker' \in [Proxies -> [Addresses -> Seq(T)]]
  BY <1>1, <1>2, <1>4, <1>5
<1> QED BY <1>6, Zenon DEF Listed

(* Steps that leave the indexes and the registry alone. *)
LEMMA RoutingStays ==
    ASSUME IndexInv, UNCHANGED routing, Listed(breaker')
    PROVE  IndexInv'
BY DEF IndexInv, routing, Forwards, Active

(* A selection asks the breakers of all eligible candidates. *)
LEMMA SelectKeeps ==
    ASSUME IndexInv, NEW r, NEW p, NEW want, NEW calls, Select(r, p, want, calls)
    PROVE  IndexInv'
<1> DEFINE hot == Active(Eligible(p, want))
           asked(a) == Asked(breaker[p][a][table[p].handle[a]])
           mine == [a \in Addresses |-> IF a \in hot
                      THEN [breaker[p][a] EXCEPT ![table[p].handle[a]] = asked(a)]
                      ELSE breaker[p][a]]
<1>1. breaker' = [breaker EXCEPT ![p] = mine] /\ UNCHANGED routing
  BY Zenon DEF Select
<1>2. PICK S : breaker \in [Proxies -> [Addresses -> Seq(S)]]
  BY Zenon DEF IndexInv, Listed
<1> DEFINE T == S \cup {asked(a) : a \in Addresses}
<1>3. \A q \in Proxies, a \in Addresses : breaker[q][a] \in Seq(T)
  BY <1>2, ListGrows
<1>4. p \in Proxies => \A a \in Addresses : mine[a] \in Seq(T)
  <2> SUFFICES ASSUME p \in Proxies, NEW a \in Addresses
               PROVE  mine[a] \in Seq(T)
    BY Zenon
  <2>1. breaker[p][a] \in Seq(T) /\ asked(a) \in T
    BY <1>3, Zenon
  <2> HIDE DEF asked, T, hot
  <2>2. [breaker[p][a] EXCEPT ![table[p].handle[a]] = asked(a)] \in Seq(T \cup {asked(a)})
    BY <2>1, PlaceFits, Zenon
  <2>3. T \cup {asked(a)} = T
    BY <2>1, Zenon
  <2> QED BY <2>1, <2>2, <2>3, Zenon
<1>5. p \in Proxies => mine \in [Addresses -> Seq(T)]
  BY <1>4, Zenon
<1> HIDE DEF mine, T
<1>6. breaker' \in [Proxies -> [Addresses -> Seq(T)]]
  BY <1>1, <1>2, <1>3, <1>5, Zenon
<1> QED BY <1>1, <1>6, RoutingStays, Zenon DEF Listed

(* The path of a request changes breakers only. *)
LEMMA RequestKeeps ==
    ASSUME IndexInv, NEW r \in Reqs,
           \/ \E want \in Wanted : Arrive(r, want)
           \/ Serve(r) \/ SchemaRefuses(r) \/ Abandon(r)
    PROVE  IndexInv'
<1>1. CASE (\E want \in Wanted : Arrive(r, want)) \/ Relay(r)
  BY <1>1, SelectKeeps, Zenon DEF Arrive, Relay
<1>2. CASE NoRoute(r) \/ Refuse(r) \/ Overlong(r) \/ SchemaRefuses(r) \/ Abandon(r)
  <2>1. breaker' = breaker /\ UNCHANGED routing
    BY <1>2, Zenon DEF NoRoute, Refuse, Overlong, SchemaRefuses, Abandon, Drop
  <2> QED BY <2>1, RoutingStays, Zenon DEF IndexInv
<1>3. CASE Forward(r) \/ EngineAnswers(r) \/ PeerAnswers(r)
  <2>1. UNCHANGED routing /\ \E h, b : Update(h, b)
    BY <1>3, Zenon DEF Forward, EngineAnswers, PeerAnswers, Return
  <2>2. Listed(breaker')
    BY <2>1, UpdateFits, Zenon DEF Update, IndexInv
  <2> QED BY <2>1, <2>2, RoutingStays, Zenon
<1> QED BY <1>1, <1>2, <1>3, Zenon DEF Serve

(* The time of an open breaker is up. *)
LEMMA ElapseKeeps ==
    ASSUME IndexInv, NEW p \in Proxies, NEW a \in Addresses, Elapse(p, a)
    PROVE  IndexInv'
<1>1. PICK n : breaker' = [breaker EXCEPT ![p][a][n].st = "elapsed"]
  BY Zenon DEF Elapse
<1>2. breaker' = [breaker EXCEPT ![p][a][n] = [breaker[p][a][n] EXCEPT !.st = "elapsed"]]
  <2>1. PICK S : breaker \in [Proxies -> [Addresses -> Seq(S)]]
    BY Zenon DEF IndexInv, Listed
  <2> QED BY <1>1, <2>1, Zenon
<1>3. Listed(breaker')
  BY <1>2, UpdateFits, Zenon DEF IndexInv
<1> QED BY <1>3, RoutingStays, Zenon DEF Elapse

(* Building an index registers a breaker for every address that has none,  *)
(* and leaves those of the published index alone.                          *)
LEMMA PrepareKeeps ==
    ASSUME IndexInv, NEW p \in Proxies, NEW v \in DOMAIN Rules, Prepare(p, v)
    PROVE  IndexInv'
<1> DEFINE candidates == Indexed[p][v]
           handle == Resolved(p, Active(candidates))
           index == [version |-> v, candidates |-> candidates, handle |-> handle]
           mine == [a \in Addresses |-> IF handle[a] > Len(breaker[p][a])
                                        THEN Append(breaker[p][a], Fresh) ELSE breaker[p][a]]
<1>1. /\ breaker' = [breaker EXCEPT ![p] = mine]
      /\ registry' = [registry EXCEPT ![p] = handle]
      /\ refresh' = [refresh EXCEPT ![p] = [pc |-> "prepared", table |-> index]]
      /\ UNCHANGED <<plan, table>>
  BY Zenon DEF Prepare
<1>2. PICK S : breaker \in [Proxies -> [Addresses -> Seq(S)]]
  BY Zenon DEF IndexInv, Listed
<1>3. handle \in [Addresses -> Nat] /\ \A a \in Active(candidates) : handle[a] # NoBreaker
  <2>1. \A a \in Addresses : Len(breaker[p][a]) \in Nat /\ registry[p][a] \in Nat
    BY <1>2 DEF IndexInv
  <2>2. Active(candidates) \subseteq Addresses
    BY Zenon DEF Active
  <2> HIDE DEF candidates
  <2> QED BY <2>1, <2>2 DEF Resolved, NoBreaker
<1>4. Forwards(handle, index)
  BY <1>3, Zenon DEF Forwards
<1>5. Forwards(handle, table[p])
  <2>1. Forwards(registry[p], table[p]) /\ Active(table[p].candidates) \subseteq Addresses
    BY Zenon DEF IndexInv, Active
  <2>2. \A a \in Active(table[p].candidates) : handle[a] = registry[p][a]
    BY <2>1, Zenon DEF Resolved, Forwards
  <2> QED BY <2>1, <2>2, Zenon DEF Forwards
<1>6. Listed(breaker')
  <2> DEFINE T == S \cup {Fresh}
  <2>1. \A q \in Proxies, a \in Addresses : breaker[q][a] \in Seq(T) /\ Fresh \in T
    BY <1>2, ListGrows
  <2> HIDE DEF T, handle
  <2>2. \A q \in Proxies, a \in Addresses : Append(breaker[q][a], Fresh) \in Seq(T)
    BY <2>1
  <2>3. mine \in [Addresses -> Seq(T)]
    BY <2>1, <2>2, Zenon
  <2> HIDE DEF mine
  <2>4. breaker' \in [Proxies -> [Addresses -> Seq(T)]]
    BY <1>1, <1>2, <2>1, <2>3, Zenon
  <2> QED BY <2>4, Zenon DEF Listed
<1>7. /\ [pc |-> "prepared", table |-> index].pc = "prepared"
      /\ [pc |-> "prepared", table |-> index].table = index
  BY Zenon
<1> DEFINE next == [pc |-> "prepared", table |-> index]
<1>8. refresh' = [refresh EXCEPT ![p] = next] /\ next.table = index
  BY <1>1, <1>7, Zenon
<1> HIDE DEF next, index, handle, candidates, mine
<1>9. /\ registry' \in [Proxies -> [Addresses -> Nat]]
      /\ refresh' \in [Proxies -> {refresh'[q] : q \in Proxies}]
  BY <1>1, <1>3, <1>8 DEF IndexInv
<1>10. ASSUME NEW q \in Proxies
       PROVE  /\ Forwards(registry'[q], table'[q])
              /\ refresh'[q].pc = "prepared" => Forwards(registry'[q], refresh'[q].table)
  <2>1. CASE q = p
    <3>1. registry'[q] = handle /\ refresh'[q] = next /\ table'[q] = table[p]
      BY <1>1, <1>8, <2>1, Zenon DEF IndexInv
    <3> QED BY <1>4, <1>5, <1>8, <3>1, Zenon
  <2>2. CASE q # p
    <3>1. registry'[q] = registry[q] /\ refresh'[q] = refresh[q] /\ table'[q] = table[q]
      BY <1>1, <1>8, <2>2, Zenon DEF IndexInv
    <3> QED BY <3>1, Zenon DEF IndexInv
  <2> QED BY <2>1, <2>2, Zenon
<1>11. table' \in [Proxies -> {table'[q] : q \in Proxies}] /\ plan' \in Plans
  BY <1>1, Zenon DEF IndexInv
<1>12. \A q \in Proxies : /\ Forwards(registry[q], table[q])'
                          /\ (refresh[q].pc = "prepared" => Forwards(registry[q], refresh[q].table))'
  BY <1>10, Zenon DEF Forwards, Active
<1> QED BY <1>6, <1>9, <1>11, <1>12, Zenon DEF IndexInv

(* Publication swaps the prepared index in; the registry has its breakers. *)
LEMMA PublishKeeps ==
    ASSUME IndexInv, NEW p \in Proxies, Publish(p)
    PROVE  IndexInv'
<1> DEFINE over == [pc |-> "published"]
<1>1. /\ table' = [table EXCEPT ![p] = refresh[p].table]
      /\ refresh' = [refresh EXCEPT ![p] = over] /\ over.pc # "prepared"
      /\ refresh[p].pc = "prepared" /\ UNCHANGED <<plan, registry, breaker>>
  BY Zenon DEF Publish
<1> HIDE DEF over
<1>2. /\ table' \in [Proxies -> {table'[q] : q \in Proxies}]
      /\ refresh' \in [Proxies -> {refresh'[q] : q \in Proxies}]
  BY <1>1, Zenon DEF IndexInv
<1>3. ASSUME NEW q \in Proxies
      PROVE  /\ Forwards(registry[q], table'[q])
             /\ refresh'[q].pc = "prepared" => Forwards(registry[q], refresh'[q].table)
  <2>1. CASE q = p
    <3>1. table'[q] = refresh[p].table /\ refresh'[q] = over
      BY <1>1, <2>1, Zenon DEF IndexInv
    <3> QED BY <1>1, <2>1, <3>1, Zenon DEF IndexInv
  <2>2. CASE q # p
    <3>1. table'[q] = table[q] /\ refresh'[q] = refresh[q]
      BY <1>1, <2>2, Zenon DEF IndexInv
    <3> QED BY <3>1, Zenon DEF IndexInv
  <2> QED BY <2>1, <2>2, Zenon
<1>4. \A q \in Proxies : /\ Forwards(registry[q], table[q])'
                         /\ (refresh[q].pc = "prepared" => Forwards(registry[q], refresh[q].table))'
  BY <1>1, <1>3 DEF Forwards, Active
<1> QED BY <1>1, <1>2, <1>4, Zenon DEF IndexInv, Listed

(* Eviction drops the breakers the published index does not use. *)
LEMMA EvictKeeps ==
    ASSUME IndexInv, NEW p \in Proxies, Evict(p)
    PROVE  IndexInv'
<1> DEFINE left == [a \in Addresses |-> IF a \in Active(table[p].candidates)
                                        THEN registry[p][a] ELSE NoBreaker]
<1>1. /\ registry' = [registry EXCEPT ![p] = left]
      /\ refresh' = [refresh EXCEPT ![p] = Idle] /\ Idle.pc # "prepared"
      /\ UNCHANGED <<plan, table, breaker>>
  BY Zenon DEF Evict, Idle
<1>2. left \in [Addresses -> Nat] /\ \A a \in Active(table[p].candidates) : left[a] = registry[p][a]
  BY Zenon DEF IndexInv, Active, NoBreaker
<1> HIDE DEF left
<1>3. /\ registry' \in [Proxies -> [Addresses -> Nat]]
      /\ refresh' \in [Proxies -> {refresh'[q] : q \in Proxies}]
  BY <1>1, <1>2, Zenon DEF IndexInv
<1>4. ASSUME NEW q \in Proxies
      PROVE  /\ Forwards(registry'[q], table[q])
             /\ refresh'[q].pc = "prepared" => Forwards(registry'[q], refresh'[q].table)
  <2>1. CASE q = p
    <3>1. registry'[q] = left /\ refresh'[q] = Idle
      BY <1>1, <2>1, Zenon DEF IndexInv
    <3>2. Forwards(left, table[p])
      BY <1>2, Zenon DEF IndexInv, Forwards
    <3> QED BY <1>1, <2>1, <3>1, <3>2, Zenon
  <2>2. CASE q # p
    <3>1. registry'[q] = registry[q] /\ refresh'[q] = refresh[q]
      BY <1>1, <2>2, Zenon DEF IndexInv
    <3> QED BY <3>1, Zenon DEF IndexInv
  <2> QED BY <2>1, <2>2, Zenon
<1>5. \A q \in Proxies : /\ Forwards(registry[q], table[q])'
                         /\ (refresh[q].pc = "prepared" => Forwards(registry[q], refresh[q].table))'
  BY <1>1, <1>4 DEF Forwards, Active
<1> QED BY <1>1, <1>3, <1>5, Zenon DEF IndexInv, Listed

(* The first table is published with a breaker for each of its addresses.  *)
LEMMA IndexStarts ==
    ASSUME Init
    PROVE  IndexInv
<1> DEFINE first(p) == [version |-> 1, candidates |-> Indexed[p][1],
                        handle |-> [a \in Addresses |->
                                      IF a \in Active(Indexed[p][1]) THEN 1 ELSE NoBreaker]]
<1>1. /\ plan \in Plans /\ table = [p \in Proxies |-> first(p)]
      /\ registry = [p \in Proxies |-> table[p].handle]
      /\ refresh = [p \in Proxies |-> Idle] /\ Idle.pc # "prepared"
      /\ breaker = [p \in Proxies |-> [a \in Addresses |->
                      IF a \in Active(Indexed[p][1]) THEN <<Fresh>> ELSE <<>>]]
  BY Zenon DEF Init, Idle
<1>2. breaker \in [Proxies -> [Addresses -> Seq({Fresh})]]
  <2>1. <<Fresh>> \in Seq({Fresh}) /\ <<>> \in Seq({Fresh})
    OBVIOUS
  <2> QED BY <1>1, <2>1, Zenon
<1>3. \A p \in Proxies : first(p).handle \in [Addresses -> Nat] /\ Forwards(first(p).handle, first(p))
  BY DEF Forwards, Active, NoBreaker
<1> HIDE DEF first
<1>4. \A p \in Proxies : table[p] = first(p) /\ registry[p] = first(p).handle /\ refresh[p] = Idle
  BY <1>1, Zenon
<1>5. registry \in [Proxies -> [Addresses -> Nat]]
  BY <1>1, <1>3, <1>4, Zenon
<1>6. /\ table \in [Proxies -> {table[p] : p \in Proxies}]
      /\ refresh \in [Proxies -> {refresh[p] : p \in Proxies}]
  BY <1>1, Zenon
<1> QED BY <1>1, <1>2, <1>3, <1>4, <1>5, <1>6, Zenon DEF IndexInv, Listed

(* Every step keeps the invariant.                                         *)
LEMMA IndexKeeps ==
    ASSUME IndexInv, [Next]_vars
    PROVE  IndexInv'
<1>1. CASE UNCHANGED vars
  BY <1>1, RoutingStays, Zenon DEF vars, routing, IndexInv
<1>2. CASE Heal
  <2>1. breaker' = breaker /\ UNCHANGED routing
    BY <1>2, Zenon DEF Heal
  <2> QED BY <2>1, RoutingStays, Zenon DEF IndexInv
<1>3. CASE \E p \in Proxies : Refresh(p)
  BY <1>3, PrepareKeeps, PublishKeeps, EvictKeeps, Zenon DEF Refresh
<1>4. CASE \E p \in Proxies, a \in Addresses : Elapse(p, a)
  BY <1>4, ElapseKeeps, Zenon
<1>5. CASE \E r \in Reqs : \/ \E want \in Wanted : Arrive(r, want)
                           \/ Serve(r) \/ SchemaRefuses(r) \/ Abandon(r)
  BY <1>5, RequestKeeps, Zenon
<1> QED BY <1>1, <1>2, <1>3, <1>4, <1>5, Zenon DEF Next

(* It holds throughout.                                                    *)
LEMMA IndexHolds == Spec => []IndexInv
<1>1. Init => IndexInv
  BY IndexStarts, Zenon
<1>2. IndexInv /\ [Next]_vars => IndexInv'
  BY IndexKeeps, Zenon
<1> QED BY <1>1, <1>2, PTL DEF Spec

(* For any proxies, engines, tables and requests, the breaker a published  *)
(* candidate forwards through is the registered one of its address, at     *)
(* every moment of RoutingTable::replace.                                  *)
THEOREM PublishedWasRegistered == Spec => []PublishedIsRegistered
<1>1. IndexInv => PublishedIsRegistered
  BY Zenon DEF IndexInv, PublishedIsRegistered, Forwards, Modelled
<1> QED BY <1>1, IndexHolds, PTL

(* "Circuit breakers ... survive routing refreshes while that destination  *)
(* remains active": replacing the index never resets or swaps the breaker  *)
(* of an address both indexes use.                                         *)
THEOREM BreakersSurvived == Spec => BreakersSurvive
<1> DEFINE Survive == \A p \in Modelled :
                         \A a \in Active(table[p].candidates) \cap Active(table'[p].candidates) :
                            table'[p].handle[a] = table[p].handle[a]
<1>1. ASSUME IndexInv, [Next]_vars
      PROVE  Survive \/ UNCHANGED vars
  <2>1. CASE table' = table
    BY <2>1, Zenon
  <2>2. ASSUME NEW q \in Proxies, Publish(q)
        PROVE  Survive
    <3>1. /\ refresh[q].pc = "prepared" /\ table' = [table EXCEPT ![q] = refresh[q].table]
      BY <2>2, Zenon DEF Publish
    <3> SUFFICES ASSUME NEW p \in Modelled,
                        NEW a \in Active(table[p].candidates) \cap Active(table'[p].candidates)
                 PROVE  table'[p].handle[a] = table[p].handle[a]
      BY Zenon
    <3>2. p \in Proxies /\ Forwards(registry[p], table[p])
      BY <1>1, Zenon DEF Modelled, IndexInv
    <3>3. CASE p = q
      <4>1. table'[p] = refresh[p].table /\ Forwards(registry[p], refresh[p].table)
        BY <1>1, <3>1, <3>2, <3>3, Zenon DEF IndexInv
      <4> QED BY <3>2, <4>1, Zenon DEF Forwards
    <3>4. CASE p # q
      BY <1>1, <3>1, <3>2, <3>4, Zenon DEF IndexInv
    <3> QED BY <3>3, <3>4, Zenon
  <2>3. CASE Next /\ ~\E q \in Proxies : Publish(q)
    <3>1. CASE \E p \in Proxies : Refresh(p)
      BY <2>3, <3>1, Zenon DEF Refresh, Prepare, Evict
    <3>2. CASE \E r \in Reqs : \/ \E want \in Wanted : Arrive(r, want)
                               \/ Serve(r) \/ SchemaRefuses(r) \/ Abandon(r)
      <4>1. ASSUME NEW r \in Reqs, NEW want \in Wanted, Arrive(r, want) PROVE table' = table
        BY <4>1, Zenon DEF Arrive, Select, NoRoute, Forward, Refuse, routing
      <4>2. ASSUME NEW r \in Reqs, Serve(r) PROVE table' = table
        BY <4>2, Zenon DEF Serve, Relay, Select, NoRoute, Forward, Refuse, EngineAnswers,
                           PeerAnswers, Return, Overlong, Drop, routing
      <4>3. ASSUME NEW r \in Reqs, SchemaRefuses(r) \/ Abandon(r) PROVE table' = table
        BY <4>3, Zenon DEF SchemaRefuses, Abandon, Drop, routing
      <4> QED BY <3>2, <4>1, <4>2, <4>3, Zenon
    <3>3. CASE \/ \E p \in Proxies, a \in Addresses : Elapse(p, a)
             \/ Heal
      BY <3>3, Zenon DEF Elapse, Heal, routing
    <3> QED BY <2>3, <3>1, <3>2, <3>3, Zenon DEF Next
  <2> QED BY <1>1, <2>2, <2>3, Zenon
<1> QED BY <1>1, IndexHolds, PTL DEF Spec, BreakersSurvive

-----------------------------------------------------------------------------
(* DatabaseSession: transactions tell the truth.                           *)

(* A statement is its guest and its number; sessions and transactions, by  *)
(* type.                                                                   *)
Stmts == Guests \X Nat

Sessions ==
    [sql : {"idle", "open", "aborted"}, work : SUBSET Stmts, unseen : BOOLEAN, alive : BOOLEAN,
     owner : Guests \cup {"pool"}]

TxStates ==
    [phase : {"none", "active", "poisoned", "completed"}, cursor : BOOLEAN, discard : BOOLEAN,
     spent : BOOLEAN, acked : SUBSET Stmts, on : Conns \cup {"none"}]

DbType ==
    /\ conn \in [Conns -> Sessions]
    /\ tx \in [Guests -> TxStates]
    /\ cur \in [Guests -> {"none", "connection", "transaction", "exhausted"}]
    /\ issued \in [Guests -> Nat]

(* The statements a guest has issued so far. *)
Own(g) == {s \in Stmts : s[1] = g /\ s[2] <= issued[g]}

(* The transaction of g has a connection of the pool.                      *)
Held(g) == tx[g].phase \in {"active", "poisoned"}

(* What a transaction that has not been ended yet says of its session k. *)
Backed(g, k) ==
    /\ k.sql # "idle"
    /\ k.unseen => tx[g].cursor
    /\ tx[g].phase = "active" /\ k.alive /\ ~k.unseen => k.sql = "open" /\ tx[g].acked \subseteq k.work
    /\ k.work \subseteq Own(g)
    /\ k.work \cap void = {}
    /\ tx[g].acked \cap durable = {}

(* How a guest's transaction and cursor fit the session they run on.       *)
SessionFits(g) ==
    /\ Held(g) => tx[g].on \in Conns /\ conn[tx[g].on].owner = g
    /\ Held(g) /\ ~tx[g].spent => Backed(g, conn[tx[g].on])
    /\ tx[g].acked \subseteq Own(g)
    /\ cur[g] = "transaction" => Held(g) /\ tx[g].cursor
    /\ ~Held(g) => tx[g].on = "none" /\ Abandoned(g) = {}

(* The inductive invariant of the database sessions. What an answer        *)
(* promised depends on what the session holds, so it ties the acknowledged *)
(* statements of an open transaction to the work of its session.           *)
DbInv ==
    /\ DbType
    /\ \A g \in Guests : SessionFits(g)
    /\ \A s \in void \cup durable : s \in Stmts /\ s \in Own(s[1])
    /\ CommitTellsTruth
    /\ RollbackHolds

(* What PostgreSQL answers a statement: success adds it to the session's   *)
(* work or commits it at once, an error aborts an open transaction and     *)
(* adds nothing.                                                           *)
LEMMA StatementReplies ==
    ASSUME NEW k \in Sessions, NEW s \in Stmts, NEW r \in Statement(k, s)
    PROVE  /\ r.session \in Sessions /\ r.session.owner = k.owner /\ r.session.unseen = k.unseen
           /\ r.ok \in BOOLEAN
           /\ r.ok => \/ /\ k.sql = "open" /\ r.session.sql = "open" /\ r.session.alive = k.alive
                         /\ r.session.work = k.work \cup {s} /\ r.committed = {}
                      \/ k.sql = "idle" /\ r.session = k /\ r.committed = {s}
           /\ ~r.ok => /\ r.committed = {} /\ r.session.work \subseteq k.work
                       /\ r.session.sql = "idle" => k.sql = "idle"
<1> DEFINE l == IF k.sql = "open" THEN "aborted" ELSE k.sql
           a == [k EXCEPT !.sql = l, !.work = {}]
           w == [k EXCEPT !.work = k.work \cup {s}]
<1>1. l \in {"idle", "aborted"} /\ (l = "idle" => k.sql = "idle")
  BY Zenon DEF Sessions
<1>2. w \in Sessions /\ w.sql = k.sql /\ w.owner = k.owner /\ w.unseen = k.unseen /\ w.alive = k.alive
      /\ w.work = k.work \cup {s}
  BY Zenon DEF Sessions
<1>3. Statement(k, s) = IF ~k.alive \/ k.sql = "aborted" THEN {DbReply(k, FALSE, {})}
                        ELSE {DbReply(a, FALSE, {}),
                              IF k.sql = "open" THEN DbReply(w, TRUE, {}) ELSE DbReply(k, TRUE, {s})}
  BY Zenon DEF Statement
<1> HIDE DEF l, w
<1>4. a \in Sessions /\ a.sql = l /\ a.owner = k.owner /\ a.unseen = k.unseen /\ a.work = {}
  BY <1>1, Zenon DEF Sessions
<1> HIDE DEF a
<1>9. k.sql \in {"idle", "open", "aborted"}
  BY Zenon DEF Sessions
<1>10. \/ r = DbReply(k, FALSE, {}) \/ r = DbReply(a, FALSE, {})
       \/ k.sql = "open" /\ r = DbReply(w, TRUE, {})
       \/ k.sql = "idle" /\ r = DbReply(k, TRUE, {s})
  BY <1>3, <1>9, Zenon
<1>5. CASE r = DbReply(k, FALSE, {})
  BY <1>5, Zenon DEF DbReply
<1>6. CASE r = DbReply(a, FALSE, {})
  BY <1>1, <1>4, <1>6, Zenon DEF DbReply
<1>7. CASE k.sql = "open" /\ r = DbReply(w, TRUE, {})
  BY <1>2, <1>7, Zenon DEF DbReply
<1>8. CASE k.sql = "idle" /\ r = DbReply(k, TRUE, {s})
  BY <1>8, Zenon DEF DbReply
<1> QED BY <1>5, <1>6, <1>7, <1>8, <1>10, Zenon

(* What COMMIT and ROLLBACK do to a session: only a COMMIT that answers on *)
(* a live connection has committed the session's whole work, and a         *)
(* ROLLBACK commits nothing.                                               *)
LEMMA TerminalReplies ==
    ASSUME NEW k \in Sessions, NEW r \in Commit(k) \cup Rollback(k)
    PROVE  /\ r.session \in Sessions /\ r.session.owner = k.owner
           /\ r.ok \in BOOLEAN /\ r.committed \subseteq k.work
           /\ r \in Commit(k) /\ r.ok => k.alive /\ r.committed = k.work
           /\ r \in Rollback(k) => r.committed = {}
<1> DEFINE over == [k EXCEPT !.sql = "idle", !.work = {}]
           lost == [over EXCEPT !.alive = FALSE]
<1>1. over \in Sessions /\ over.owner = k.owner
  BY Zenon DEF Sessions
<1>2. /\ r \in Rollback(k) => r = DbReply(over, k.alive, {})
      /\ r \in Commit(k) => \/ r = DbReply(k, FALSE, {})
                            \/ r = DbReply(over, FALSE, {})
                            \/ r = DbReply(lost, FALSE, k.work)
                            \/ k.alive /\ r = DbReply(over, TRUE, k.work)
  BY Zenon DEF Commit, Rollback
<1>3. k.alive \in BOOLEAN
  BY Zenon DEF Sessions
<1> HIDE DEF over
<1>4. lost \in Sessions /\ lost.owner = over.owner
  BY <1>1, Zenon DEF Sessions
<1> HIDE DEF lost
<1>5. ASSUME r \in Rollback(k)
      PROVE  /\ r.session = over /\ r.ok = k.alive /\ r.committed = {}
  BY <1>2, <1>5 DEF DbReply
<1>6. ASSUME r \in Commit(k)
      PROVE  /\ r.session \in {k, over, lost} /\ r.ok \in BOOLEAN /\ r.committed \in {{}, k.work}
             /\ r.ok => k.alive /\ r.committed = k.work
  <2>1. CASE r = DbReply(k, FALSE, {})
    BY <2>1, Zenon DEF DbReply
  <2>2. CASE r = DbReply(over, FALSE, {})
    BY <2>2, Zenon DEF DbReply
  <2>3. CASE r = DbReply(lost, FALSE, k.work)
    BY <2>3, Zenon DEF DbReply
  <2>4. CASE k.alive /\ r = DbReply(over, TRUE, k.work)
    BY <2>4, Zenon DEF DbReply
  <2> QED BY <1>2, <1>6, <2>1, <2>2, <2>3, <2>4, Zenon
<1> QED BY <1>1, <1>3, <1>4, <1>5, <1>6, Zenon

(* A step of guest g leaves the other guests' resources alone. *)
Local(g) ==
    /\ \A x \in Guests : x # g => /\ tx'[x] = tx[x] /\ cur'[x] = cur[x] /\ issued'[x] = issued[x]
                                  /\ \A c \in Conns : conn[c].owner = x => conn'[c] = conn[c]
    /\ issued[g] <= issued'[g]
    /\ durable' \subseteq durable \cup Own(g)' /\ void' \subseteq void \cup Own(g)'

(* Every step of the guests, of the pool and of the connections keeps      *)
(* DbInv, provided no guest issues transaction control as a plain          *)
(* statement.                                                              *)
LEMMA DbStep ==
    ASSUME Raw = {}, DbInv, DbNext \/ UNCHANGED dbVars
    PROVE  DbInv'
<1> USE SessionAssumption
<1>t. DbType
  BY Zenon DEF DbInv
<1>o. ASSUME NEW g \in Guests, NEW x \in Guests, x # g PROVE Own(x) \cap Own(g)' = {}
  BY <1>o, Zenon DEF Own
<1>m. ASSUME NEW g \in Guests, issued' \in [Guests -> Nat], issued[g] <= issued'[g] PROVE Own(g) \subseteq Own(g)'
  <2>1. \A n \in Nat : n <= issued[g] => n <= issued'[g]
    BY <1>m, <1>t DEF DbType
  <2> QED BY <2>1, Zenon DEF Own, Stmts
<1>1. ASSUME NEW g \in Guests, DbType', Local(g), NEW x \in Guests, x # g PROVE SessionFits(x)'
  <2>1. tx'[x] = tx[x] /\ cur'[x] = cur[x] /\ Own(x)' = Own(x) /\ Held(x)' = Held(x)
        /\ Abandoned(x)' = Abandoned(x)
    BY <1>1, Zenon DEF Local, Own, Held, Abandoned
  <2>2. SessionFits(x)
    BY Zenon DEF DbInv
  <2>3. Held(x) => conn'[tx[x].on] = conn[tx[x].on]
    BY <1>1, <2>2, Zenon DEF Local, SessionFits
  <2>o. Own(x) \cap Own(g)' = {}
    BY <1>1, <1>o, Zenon
  <2>d. durable' \cap Own(x) \subseteq durable /\ void' \cap Own(x) \subseteq void
    BY <1>1, <2>o, Zenon DEF Local
  <2>a. tx[x].acked \subseteq Own(x)
    BY <2>2, Zenon DEF SessionFits
  <2>4. Held(x) /\ ~tx[x].spent => Backed(x, conn[tx[x].on])'
    BY <2>1, <2>2, <2>3, <2>d, <2>a, Zenon DEF SessionFits, Backed
  <2> QED BY <2>1, <2>2, <2>3, <2>4, Zenon DEF SessionFits
<1>2. ASSUME NEW g \in Guests, DbType', Local(g), SessionFits(g)', CommitTellsTruth', RollbackHolds'
      PROVE  DbInv'
  <2>1. \A x \in Guests : SessionFits(x)'
    BY <1>1, <1>2, Zenon
  <2>2. \A x \in Guests : Own(x) \subseteq Own(x)'
    BY <1>2, <1>m, Zenon DEF Local, Own, DbType
  <2>3. ASSUME NEW s \in void' \cup durable' PROVE s \in Stmts /\ s \in Own(s[1])'
    <3>1. CASE s \in void \cup durable
      <4>1. s \in Stmts /\ s \in Own(s[1])
        BY <3>1, Zenon DEF DbInv
      <4>2. s[1] \in Guests
        BY <4>1, Zenon DEF Stmts
      <4> QED BY <2>2, <4>1, <4>2, Zenon
    <3>2. CASE s \in Own(g)'
      BY <3>2, Zenon DEF Own
    <3> QED BY <1>2, <2>3, <3>1, <3>2, Zenon DEF Local
  <2> QED BY <1>2, <2>1, <2>3, Zenon DEF DbInv
<1>3. ASSUME NEW g \in Guests, Issue(g)
      PROVE  /\ Stmt(g) \in Stmts /\ Stmt(g) \notin Own(g) /\ Stmt(g) \notin void \cup durable
             /\ issued' \in [Guests -> Nat] /\ Stmt(g) \in Own(g)' /\ Own(g) \subseteq Own(g)'
             /\ issued[g] <= issued'[g] /\ \A x \in Guests : x # g => issued'[x] = issued[x]
  <2> DEFINE n == issued[g] + 1
  <2>1. issued[g] \in Nat /\ n \in Nat /\ ~(n <= issued[g]) /\ issued[g] <= n
    BY <1>t DEF DbType
  <2>2. issued' = [issued EXCEPT ![g] = n]
    BY <1>3, Zenon DEF Issue
  <2>3. Stmt(g) = <<g, n>>
    BY Zenon DEF Stmt
  <2> HIDE DEF n
  <2>4. issued' \in [Guests -> Nat] /\ issued'[g] = n /\ \A x \in Guests : x # g => issued'[x] = issued[x]
    BY <1>t, <2>1, <2>2, Zenon DEF DbType
  <2>5. Stmt(g) \in Stmts /\ Stmt(g)[1] = g /\ Stmt(g)[2] = n
    BY <2>1, <2>3 DEF Stmts
  <2>6. Stmt(g) \notin Own(g) /\ Stmt(g) \in Own(g)'
    BY <2>1, <2>4, <2>5 DEF Own
  <2>7. Own(g) \subseteq Own(g)'
    BY <1>m, <2>1, <2>4, Zenon
  <2> QED BY <2>1, <2>4, <2>5, <2>6, <2>7, Zenon DEF DbInv
(* a session becomes k *)
<1>4. ASSUME NEW c \in Conns, NEW k \in Sessions, conn' = [conn EXCEPT ![c] = k]
      PROVE  /\ conn' \in [Conns -> Sessions] /\ conn'[c] = k
             /\ \A d \in Conns : d # c => conn'[d] = conn[d]
  BY <1>4, <1>t, Zenon DEF DbType
<1>5. ASSUME NEW g \in Guests, NEW q \in TxStates, tx' = [tx EXCEPT ![g] = q]
      PROVE  tx' \in [Guests -> TxStates] /\ tx'[g] = q /\ \A x \in Guests : x # g => tx'[x] = tx[x]
  BY <1>5, <1>t, Zenon DEF DbType
<1>6. ASSUME NEW g \in Guests, NEW q \in {"none", "connection", "transaction", "exhausted"},
             cur' = [cur EXCEPT ![g] = q]
      PROVE  /\ cur' \in [Guests -> {"none", "connection", "transaction", "exhausted"}]
             /\ cur'[g] = q /\ \A x \in Guests : x # g => cur'[x] = cur[x]
  BY <1>6, <1>t, Zenon DEF DbType
<1>7. ASSUME NEW g \in Guests PROVE Clean(g) \in Sessions /\ Clean("pool") \in Sessions
  BY Zenon DEF Clean, Sessions
<1>8. ASSUME NEW k \in Sessions PROVE HandBack(k) \in Sessions /\ HandBack(k).owner = "pool"
  BY Zenon DEF HandBack, Sessions
(* a transaction that g does not touch keeps its session *)
<1>9. ASSUME NEW g \in Guests, tx'[g] = tx[g], Held(g) => conn'[tx[g].on] = conn[tx[g].on],
             cur'[g] = "transaction" => cur[g] = "transaction",
             Own(g) \subseteq Own(g)', void' = void, durable' \cap Own(g) \subseteq durable
      PROVE  SessionFits(g)'
  <2>1. SessionFits(g) /\ Held(g)' = Held(g) /\ Abandoned(g)' = Abandoned(g)
    BY <1>9, Zenon DEF DbInv, Held, Abandoned
  <2>2. Held(g) /\ ~tx[g].spent => Backed(g, conn[tx[g].on])'
    BY <1>9, <2>1, Zenon DEF SessionFits, Backed
  <2> QED BY <1>9, <2>1, <2>2, Zenon DEF SessionFits
<1>10. ASSUME NEW g \in Guests, Execute(g) PROVE DbInv'
  <2>c. PICK c \in Conns : Free(c) /\ \E r \in Statement(Recycle(c, g), Stmt(g)) :
              /\ conn' = [conn EXCEPT ![c] = HandBack(r.session)]
              /\ durable' = durable \cup r.committed
              /\ \E told \in Told(r) : promised' = IF told THEN promised \cup {Stmt(g)} ELSE promised
    BY <1>10, Zenon DEF Execute
  <2>r. PICK r \in Statement(Recycle(c, g), Stmt(g)) :
              /\ conn' = [conn EXCEPT ![c] = HandBack(r.session)]
              /\ durable' = durable \cup r.committed
              /\ \E told \in Told(r) : promised' = IF told THEN promised \cup {Stmt(g)} ELSE promised
    BY <2>c, Zenon
  <2>1. PICK told \in Told(r) :
              /\ Free(c) /\ conn' = [conn EXCEPT ![c] = HandBack(r.session)]
              /\ durable' = durable \cup r.committed
              /\ promised' = IF told THEN promised \cup {Stmt(g)} ELSE promised
    BY <2>c, <2>r, Zenon
  <2>2. Issue(g) /\ UNCHANGED <<tx, cur, live, void>>
    BY <1>10, Zenon DEF Execute
  <2>3. Recycle(c, g) = Clean(g) /\ Clean(g) \in Sessions /\ Clean(g).sql = "idle"
    BY <1>7, Zenon DEF Recycle, Clean
  <2>4. /\ r.session \in Sessions /\ r.committed \subseteq {Stmt(g)}
        /\ told => r.committed = {Stmt(g)}
    <3>1. /\ r.session \in Sessions /\ r.ok \in BOOLEAN
          /\ (r.ok => r.committed = {Stmt(g)}) /\ (~r.ok => r.committed = {})
      <4>1. Stmt(g) \in Stmts
        BY <1>3, <2>2, Zenon
      <4>2. Clean(g).sql # "open"
        BY <2>3, Zenon
      <4> QED BY <2>3, <4>1, <4>2, StatementReplies, Zenon
    <3>2. told => r.ok
      BY Zenon DEF Told
    <3> QED BY <3>1, <3>2, Zenon
  <2>5. /\ conn' \in [Conns -> Sessions] /\ \A d \in Conns : d # c => conn'[d] = conn[d]
    BY <1>4, <1>8, <2>1, <2>4, Zenon
  <2>6. DbType'
    BY <1>3, <1>t, <2>2, <2>5, Zenon DEF DbType
  <2>7. Local(g)
    BY <1>3, <2>1, <2>2, <2>4, <2>5 DEF Local, Free
  <2>8. Held(g) => tx[g].on # c /\ tx[g].on \in Conns
    BY <2>1 DEF DbInv, SessionFits, Free
  <2>9. SessionFits(g)'
    BY <1>3, <1>9, <2>1, <2>2, <2>4, <2>5, <2>8, Zenon
  <2>10. CommitTellsTruth' /\ RollbackHolds'
    BY <1>3, <2>1, <2>2, <2>4 DEF DbInv, CommitTellsTruth, RollbackHolds
  <2> QED BY <1>2, <2>6, <2>7, <2>9, <2>10, Zenon
(* a step that touches only connections no transaction holds *)
<1>11. ASSUME NEW g \in Guests, NEW c \in Conns, NEW k \in Sessions, conn' = [conn EXCEPT ![c] = k],
              conn[c].owner \in {"pool", g}, Held(g) => tx[g].on # c, NEW q \in {"none", "connection", "exhausted"},
              cur' = [cur EXCEPT ![g] = q], UNCHANGED <<tx, issued, durable, promised, void>>
       PROVE  DbInv'
  <2>1. /\ conn' \in [Conns -> Sessions] /\ \A d \in Conns : d # c => conn'[d] = conn[d]
    BY <1>4, <1>11, Zenon
  <2>2. /\ cur' \in [Guests -> {"none", "connection", "transaction", "exhausted"}]
        /\ cur'[g] = q /\ \A x \in Guests : x # g => cur'[x] = cur[x]
    BY <1>6, <1>11, Zenon
  <2>3. DbType'
    BY <1>11, <1>t, <2>1, <2>2, Zenon DEF DbType
  <2>4. Local(g)
    BY <1>11, <1>t, <2>1, <2>2 DEF Local, DbType
  <2>5. Held(g) => tx[g].on \in Conns
    BY Zenon DEF DbInv, SessionFits
  <2>6. Own(g)' = Own(g)
    BY <1>11, Zenon DEF Own
  <2>7. SessionFits(g)'
    BY <1>9, <1>11, <2>1, <2>2, <2>5, <2>6, Zenon
  <2> QED BY <1>2, <1>11, <2>3, <2>4, <2>7, Zenon DEF DbInv, CommitTellsTruth, RollbackHolds
<1>12. ASSUME NEW g \in Guests, OpenCursor(g) PROVE DbInv'
  <2>1. PICK c \in Conns : Free(c) /\ conn' = [conn EXCEPT ![c] = Clean(g)]
    BY <1>12, Zenon DEF OpenCursor, Recycle
  <2>2. Held(g) => tx[g].on # c
    BY <2>1 DEF DbInv, SessionFits, Free
  <2> QED BY <1>7, <1>11, <1>12, <2>1, <2>2, Zenon DEF OpenCursor, Free
<1>13. ASSUME NEW g \in Guests, EndCursor(g) PROVE DbInv'
  <2>1. PICK c \in Conns : /\ conn[c].owner = g /\ tx[g].on # c
                           /\ conn' = [conn EXCEPT ![c] = HandBack(conn[c])]
    BY <1>13, Zenon DEF EndCursor
  <2>2. HandBack(conn[c]) \in Sessions
    BY <1>8, <1>t, Zenon DEF DbType
  <2>3. PICK q \in {"exhausted", "none"} : cur' = [cur EXCEPT ![g] = q]
    BY <1>13, Zenon DEF EndCursor
  <2> QED BY <1>11, <1>13, <2>1, <2>2, <2>3, Zenon DEF EndCursor
<1>14. ASSUME NEW g \in Guests, DropCursor(g) PROVE DbInv'
  <2>1. /\ cur' \in [Guests -> {"none", "connection", "transaction", "exhausted"}]
        /\ cur'[g] = "none" /\ \A x \in Guests : x # g => cur'[x] = cur[x]
    BY <1>6, <1>14, Zenon DEF DropCursor
  <2>2. DbType'
    BY <1>14, <1>t, <2>1, Zenon DEF DbType, DropCursor
  <2>3. Local(g)
    BY <1>14, <1>t, <2>1 DEF Local, DbType, DropCursor
  <2>4. Own(g)' = Own(g)
    BY <1>14, Zenon DEF Own, DropCursor
  <2>5. SessionFits(g)'
    BY <1>9, <1>14, <2>1, <2>4, Zenon DEF DropCursor
  <2> QED BY <1>2, <1>14, <2>2, <2>3, <2>5, Zenon DEF DbInv, CommitTellsTruth, RollbackHolds, DropCursor
(* the guest's transaction changes, and its session *)
<1>15. ASSUME NEW g \in Guests, Held(g),
              conn' \in [Conns -> Sessions], \A d \in Conns : d # tx[g].on => conn'[d] = conn[d],
              tx' \in [Guests -> TxStates], \A x \in Guests : x # g => tx'[x] = tx[x],
              cur' \in [Guests -> {"none", "connection", "transaction", "exhausted"}],
              \A x \in Guests : x # g => cur'[x] = cur[x],
              issued' \in [Guests -> Nat], issued[g] <= issued'[g],
              \A x \in Guests : x # g => issued'[x] = issued[x],
              durable' \subseteq durable \cup Own(g)', void' \subseteq void \cup Own(g)'
       PROVE  DbType' /\ Local(g)
  <2>1. tx[g].on \in Conns /\ conn[tx[g].on].owner = g
    BY <1>15, Zenon DEF DbInv, SessionFits
  <2> QED BY <1>15, <2>1, Zenon DEF DbType, Local
<1>16. ASSUME NEW g \in Guests, EnsureOperation(g)
       PROVE  /\ Held(g) /\ ~tx[g].spent /\ ~tx[g].cursor /\ tx[g] \in TxStates /\ tx[g].on \in Conns
              /\ conn[tx[g].on] \in Sessions /\ conn[tx[g].on].owner = g
              /\ Backed(g, conn[tx[g].on]) /\ tx[g].acked \subseteq Own(g) /\ cur[g] # "transaction"
  <2>1. Held(g) /\ ~tx[g].spent /\ ~tx[g].cursor
    BY <1>16, Zenon DEF EnsureOperation, Held, Reaches
  <2>2. tx[g] \in TxStates
    BY <1>t, Zenon DEF DbType
  <2>3. SessionFits(g)
    BY Zenon DEF DbInv
  <2>4. tx[g].on \in Conns /\ conn[tx[g].on].owner = g /\ Backed(g, conn[tx[g].on]) /\ tx[g].acked \subseteq Own(g)
        /\ cur[g] # "transaction"
    BY <2>1, <2>3, Zenon DEF SessionFits
  <2>5. conn[tx[g].on] \in Sessions
    BY <1>t, <2>4, Zenon DEF DbType
  <2> QED BY <2>1, <2>2, <2>4, <2>5, Zenon
<1>17. ASSUME NEW g \in Guests, TxExecute(g) PROVE DbInv'
  <2>i. Issue(g) /\ EnsureOperation(g) /\ UNCHANGED <<cur, live, promised, void>>
    BY <1>17, Zenon DEF TxExecute
  <2>r. PICK r \in Statement(conn[tx[g].on], Stmt(g)) : \E told \in Told(r) :
              /\ conn' = [conn EXCEPT ![tx[g].on] = r.session]
              /\ durable' = durable \cup r.committed
              /\ tx' = [tx EXCEPT ![g] =
                          IF ~r.ok THEN Poison(tx[g])
                          ELSE [tx[g] EXCEPT !.acked = IF told THEN tx[g].acked \cup {Stmt(g)} ELSE tx[g].acked]]
    BY <1>17, Zenon DEF TxExecute
  <2> DEFINE h == tx[g]
             k == conn[tx[g].on]
  <2>1. PICK told \in Told(r) :
              /\ conn' = [conn EXCEPT ![tx[g].on] = r.session]
              /\ durable' = durable \cup r.committed
              /\ tx' = [tx EXCEPT ![g] =
                          IF ~r.ok THEN Poison(tx[g])
                          ELSE [tx[g] EXCEPT !.acked = IF told THEN tx[g].acked \cup {Stmt(g)} ELSE tx[g].acked]]
    BY <2>r, Zenon
  <2> DEFINE w == IF told THEN h.acked \cup {Stmt(g)} ELSE h.acked
             m == [h EXCEPT !.acked = w]
  <2>2. /\ Held(g) /\ ~h.spent /\ ~h.cursor /\ h \in TxStates /\ k \in Sessions /\ k.owner = g
        /\ Backed(g, k) /\ h.acked \subseteq Own(g) /\ cur[g] # "transaction"
    BY <1>16, <2>i, Zenon
  <2>3. /\ Stmt(g) \in Stmts /\ Stmt(g) \notin void \cup durable
        /\ issued' \in [Guests -> Nat] /\ Stmt(g) \in Own(g)' /\ Own(g) \subseteq Own(g)'
        /\ issued[g] <= issued'[g] /\ \A x \in Guests : x # g => issued'[x] = issued[x]
    BY <1>3, <2>i, Zenon
  <2>4. /\ r.session \in Sessions /\ r.session.owner = g /\ r.session.unseen = k.unseen /\ r.ok \in BOOLEAN
        /\ r.committed = {} /\ r.session.sql # "idle" /\ r.session.work \subseteq k.work \cup {Stmt(g)}
        /\ r.ok => r.session.sql = "open" /\ r.session.work = k.work \cup {Stmt(g)} /\ r.session.alive = k.alive
    BY <2>2, <2>3, StatementReplies DEF Backed
  <2>w. w \subseteq h.acked \cup {Stmt(g)}
    BY Zenon
  <2> HIDE DEF w
  <2>5. m \in TxStates /\ m.phase = h.phase /\ m.cursor = h.cursor /\ m.spent = h.spent
        /\ m.acked = w /\ m.on = h.on
    BY <2>2, <2>3, <2>w, Zenon DEF TxStates
  <2>6. Poison(h) \in TxStates /\ Poison(h).phase = "poisoned" /\ Poison(h).cursor = h.cursor
        /\ Poison(h).spent = h.spent /\ Poison(h).acked = h.acked /\ Poison(h).on = h.on
    BY <2>2, Zenon DEF TxStates, Poison
  <2> HIDE DEF h, m, k
  <2> DEFINE q == IF ~r.ok THEN Poison(h) ELSE m
  <2>7. /\ q \in TxStates /\ q.phase \in {"active", "poisoned"} /\ ~q.spent /\ ~q.cursor /\ q.on = h.on
        /\ q.acked \subseteq h.acked \cup {Stmt(g)}
        /\ q.phase = "active" => r.ok /\ h.phase = "active"
    BY <2>2, <2>5, <2>6, <2>w, Zenon DEF Held, h
  <2>8. tx' = [tx EXCEPT ![g] = q]
    BY <2>1, Zenon DEF h, m, w
  <2> HIDE DEF q
  <2>9. DbType' /\ Local(g) /\ conn'[tx[g].on] = r.session /\ tx'[g] = q
    <3>1. /\ cur' \in [Guests -> {"none", "connection", "transaction", "exhausted"}] /\ cur' = cur
          /\ void' = void
      BY <1>t, <2>i, Zenon DEF DbType
    <3>2. durable' = durable /\ conn' = [conn EXCEPT ![tx[g].on] = r.session]
      BY <2>1, <2>4, Zenon
    <3>3. Held(g) /\ tx[g].on \in Conns
      BY <1>16, <2>i, Zenon
    <3>4. /\ conn' \in [Conns -> Sessions] /\ conn'[tx[g].on] = r.session
          /\ \A d \in Conns : d # tx[g].on => conn'[d] = conn[d]
      BY <1>4, <2>4, <3>2, <3>3, Zenon
    <3>5. tx' \in [Guests -> TxStates] /\ tx'[g] = q /\ \A x \in Guests : x # g => tx'[x] = tx[x]
      BY <1>5, <2>7, <2>8, Zenon
    <3> QED BY <1>15, <2>3, <3>1, <3>2, <3>3, <3>4, <3>5, Zenon
  <2>10. /\ r.session.unseen => q.cursor
         /\ q.phase = "active" /\ r.session.alive /\ ~r.session.unseen =>
               r.session.sql = "open" /\ q.acked \subseteq r.session.work
         /\ r.session.work \subseteq Own(g)' /\ r.session.work \cap void = {} /\ q.acked \cap durable = {}
    BY <2>2, <2>3, <2>4, <2>7, Zenon DEF Backed, h
  <2>11. Backed(g, r.session)'
    BY <2>1, <2>4, <2>9, <2>10, <2>i, Zenon DEF Backed
  <2>12. SessionFits(g)'
    <3>1. Held(g)' /\ tx'[g].on = tx[g].on /\ ~tx'[g].spent
      BY <2>7, <2>9, Zenon DEF Held, h
    <3>2. tx[g].on \in Conns
      BY <1>16, <2>i, Zenon
    <3>3. q.acked \subseteq Own(g)'
      BY <2>2, <2>3, <2>7, Zenon
    <3> QED BY <2>2, <2>4, <2>9, <2>11, <2>i, <3>1, <3>2, <3>3, Zenon DEF SessionFits
  <2> QED BY <1>2, <2>1, <2>4, <2>9, <2>12, <2>i, Zenon DEF DbInv, CommitTellsTruth, RollbackHolds
(* a step of an open transaction that ends no statement *)
<1>18. ASSUME NEW g \in Guests, Held(g), NEW c \in Conns, c = tx[g].on, NEW k \in Sessions, k.owner = g,
              conn' = [conn EXCEPT ![c] = k],
              NEW q \in TxStates, tx' = [tx EXCEPT ![g] = q],
              q.phase \in {"active", "poisoned"}, q.on = c, q.spent = tx[g].spent, q.acked = tx[g].acked,
              cur' \in [Guests -> {"none", "connection", "transaction", "exhausted"}],
              \A x \in Guests : x # g => cur'[x] = cur[x],
              cur'[g] = "transaction" => q.cursor,
              UNCHANGED <<issued, durable, promised, void>>,
              ~tx[g].spent => /\ k.sql # "idle" /\ (k.unseen => q.cursor) /\ k.work \subseteq conn[c].work
                              /\ q.phase = "active" /\ k.alive /\ ~k.unseen =>
                                    k.sql = "open" /\ q.acked \subseteq k.work
       PROVE  DbInv'
  <2>1. /\ conn' \in [Conns -> Sessions] /\ conn'[c] = k /\ \A d \in Conns : d # c => conn'[d] = conn[d]
    BY <1>4, <1>18, Zenon
  <2>2. tx' \in [Guests -> TxStates] /\ tx'[g] = q /\ \A x \in Guests : x # g => tx'[x] = tx[x]
    BY <1>5, <1>18, Zenon
  <2>3. issued' \in [Guests -> Nat] /\ issued[g] <= issued'[g] /\ Own(g)' = Own(g)
    BY <1>18, <1>t DEF DbType, Own
  <2>4. DbType' /\ Local(g)
    BY <1>15, <1>18, <2>1, <2>2, <2>3, Zenon
  <2>5. SessionFits(g) /\ Held(g)'
    BY <1>18, <2>2, Zenon DEF DbInv, Held
  <2>6. ~tx[g].spent => Backed(g, conn[c])
    BY <1>18, <2>5, Zenon DEF SessionFits
  <2>7. ~tx[g].spent => Backed(g, k)'
    BY <1>18, <2>1, <2>2, <2>3, <2>6 DEF Backed
  <2>8. SessionFits(g)'
    BY <1>18, <2>1, <2>2, <2>3, <2>5, <2>7 DEF SessionFits
  <2> QED BY <1>2, <1>18, <2>4, <2>8, Zenon DEF DbInv, CommitTellsTruth, RollbackHolds
<1>19. ASSUME NEW g \in Guests, TxOpenCursor(g) PROVE DbInv'
  <2> DEFINE c == tx[g].on
             h == tx[g]
             k == conn[tx[g].on]
             l == IF k.sql = "open" THEN "aborted" ELSE k.sql
             a == [k EXCEPT !.sql = l, !.work = {}]
             u == [a EXCEPT !.unseen = TRUE]
             q == [h EXCEPT !.cursor = TRUE]
  <2>1. EnsureOperation(g) /\ UNCHANGED <<live, issued, durable, promised, void>>
    BY <1>19, Zenon DEF TxOpenCursor
  <2>2. /\ Held(g) /\ h \in TxStates /\ c \in Conns /\ k \in Sessions /\ k.owner = g /\ ~h.spent /\ ~h.cursor
        /\ Backed(g, k) /\ cur[g] # "transaction"
    BY <1>16, <2>1, Zenon
  <2>3. \/ k.sql # "aborted" /\ k.alive /\ conn' = conn
              /\ tx' = [tx EXCEPT ![g] = q] /\ cur' = [cur EXCEPT ![g] = "transaction"]
        \/ conn' = [conn EXCEPT ![c] = u] /\ tx' = [tx EXCEPT ![g] = q] /\ cur' = [cur EXCEPT ![g] = "transaction"]
        \/ conn' = [conn EXCEPT ![c] = a] /\ tx' = [tx EXCEPT ![g] = Poison(h)] /\ cur' = cur
    BY <1>19, Zenon DEF TxOpenCursor
  <2>4. l = "aborted"
    BY <2>2, Zenon DEF Sessions, Backed
  <2> HIDE DEF l
  <2>5. a \in Sessions /\ a.sql = "aborted" /\ a.work = {} /\ a.owner = g /\ a.unseen = k.unseen
    BY <2>2, <2>4, Zenon DEF Sessions
  <2> HIDE DEF a
  <2>6. u \in Sessions /\ u.sql = "aborted" /\ u.work = {} /\ u.owner = g /\ u.unseen = TRUE
    BY <2>5, Zenon DEF Sessions
  <2>7. q \in TxStates /\ q.phase = h.phase /\ q.cursor = TRUE /\ q.on = c /\ q.spent = h.spent /\ q.acked = h.acked
    BY <2>2, Zenon DEF TxStates
  <2>8. Poison(h) \in TxStates /\ Poison(h).phase = "poisoned" /\ Poison(h).cursor = h.cursor
        /\ Poison(h).spent = h.spent /\ Poison(h).acked = h.acked /\ Poison(h).on = c
    BY <2>2, Zenon DEF TxStates, Poison
  <2>9. h.phase \in {"active", "poisoned"}
    BY <2>2, Zenon DEF Held
  <2> HIDE DEF u, q
  <2>10. CASE conn' = conn /\ tx' = [tx EXCEPT ![g] = q] /\ cur' = [cur EXCEPT ![g] = "transaction"]
    <3>1. conn' = [conn EXCEPT ![c] = k]
      BY <1>t, <2>2, <2>10, Zenon DEF DbType
    <3>2. /\ cur' \in [Guests -> {"none", "connection", "transaction", "exhausted"}]
          /\ \A x \in Guests : x # g => cur'[x] = cur[x]
      BY <1>6, <2>10, Zenon
    <3>3. /\ k.sql # "idle"
          /\ q.phase = "active" /\ k.alive /\ ~k.unseen => k.sql = "open" /\ q.acked \subseteq k.work
      BY <2>2, <2>7, Zenon DEF Backed
    <3> QED BY <1>18, <2>1, <2>2, <2>7, <2>9, <2>10, <3>1, <3>2, <3>3, Zenon
  <2>11. CASE conn' = [conn EXCEPT ![c] = u] /\ tx' = [tx EXCEPT ![g] = q] /\ cur' = [cur EXCEPT ![g] = "transaction"]
    <3>2. /\ cur' \in [Guests -> {"none", "connection", "transaction", "exhausted"}]
          /\ \A x \in Guests : x # g => cur'[x] = cur[x]
      BY <1>6, <2>11, Zenon
    <3> QED BY <1>18, <2>1, <2>2, <2>6, <2>7, <2>9, <2>11, <3>2, Zenon
  <2>12. CASE conn' = [conn EXCEPT ![c] = a] /\ tx' = [tx EXCEPT ![g] = Poison(h)] /\ cur' = cur
    <3>1. cur' \in [Guests -> {"none", "connection", "transaction", "exhausted"}] /\ (a.unseen => h.cursor)
      BY <1>t, <2>2, <2>5, <2>12, Zenon DEF DbType, Backed
    <3> QED BY <1>18, <2>1, <2>2, <2>5, <2>8, <2>12, <3>1, Zenon
  <2> QED BY <2>3, <2>10, <2>11, <2>12, Zenon
<1>20. ASSUME NEW g \in Guests, FinishCursor(g) PROVE DbInv'
  <2> DEFINE c == tx[g].on
             h == tx[g]
             k == conn[tx[g].on]
             s == [k EXCEPT !.unseen = FALSE]
             n == [h EXCEPT !.cursor = FALSE]
             q == Drained(g)
  <2>1. /\ cur[g] = "transaction" /\ UNCHANGED <<live, issued, durable, promised, void>>
        /\ tx' = [tx EXCEPT ![g] = q] /\ conn' = [conn EXCEPT ![c].unseen = FALSE]
    BY <1>20, Zenon DEF FinishCursor
  <2>2. SessionFits(g) /\ h \in TxStates
    BY <1>t, Zenon DEF DbInv, DbType
  <2>3. Held(g) /\ c \in Conns /\ k.owner = g /\ (~h.spent => Backed(g, k)) /\ h.phase \in {"active", "poisoned"}
    BY <2>1, <2>2, Zenon DEF SessionFits, Held
  <2>4. k \in Sessions
    BY <1>t, <2>3, Zenon DEF DbType
  <2>5. conn' = [conn EXCEPT ![c] = s]
    BY <1>t, <2>1, <2>3, Zenon DEF DbType
  <2>6. s \in Sessions /\ s.sql = k.sql /\ s.work = k.work /\ s.owner = g /\ s.unseen = FALSE /\ s.alive = k.alive
    BY <2>3, <2>4, Zenon DEF Sessions
  <2>7. n \in TxStates /\ n.phase = h.phase /\ n.on = c /\ n.spent = h.spent /\ n.acked = h.acked
    BY <2>2, Zenon DEF TxStates
  <2>8. q = IF ~k.alive THEN MarkDiscard(n) ELSE IF k.unseen THEN Poison(n) ELSE n
    BY Zenon DEF Drained
  <2> HIDE DEF n, s, q
  <2>9. Poison(n) \in TxStates /\ Poison(n).phase = "poisoned" /\ Poison(n).on = c
        /\ Poison(n).spent = h.spent /\ Poison(n).acked = h.acked
    BY <2>7, Zenon DEF TxStates, Poison
  <2>10. MarkDiscard(n) \in TxStates /\ MarkDiscard(n).phase = "poisoned" /\ MarkDiscard(n).on = c
        /\ MarkDiscard(n).spent = h.spent /\ MarkDiscard(n).acked = h.acked
    BY <2>9, Zenon DEF TxStates, MarkDiscard
  <2>11. /\ q \in TxStates /\ q.phase \in {"active", "poisoned"} /\ q.on = c /\ q.spent = h.spent /\ q.acked = h.acked
         /\ q.phase = "active" => k.alive /\ ~k.unseen /\ h.phase = "active"
    BY <2>3, <2>7, <2>8, <2>9, <2>10, Zenon
  <2>12. PICK z \in {"exhausted", "none"} : cur' = [cur EXCEPT ![g] = z]
    BY <1>20, Zenon DEF FinishCursor
  <2>13. /\ cur' \in [Guests -> {"none", "connection", "transaction", "exhausted"}]
         /\ \A x \in Guests : x # g => cur'[x] = cur[x]
    BY <1>6, <2>12, Zenon
  <2>14. cur'[g] # "transaction"
    BY <1>6, <2>12, Zenon
  <2>15. ~h.spent => /\ s.sql # "idle" /\ s.work \subseteq k.work
                     /\ q.phase = "active" => s.sql = "open" /\ q.acked \subseteq s.work
    BY <2>3, <2>6, <2>11, Zenon DEF Backed
  <2>16. ~tx[g].spent => /\ s.sql # "idle" /\ (s.unseen => q.cursor) /\ s.work \subseteq conn[c].work
                         /\ q.phase = "active" /\ s.alive /\ ~s.unseen =>
                               s.sql = "open" /\ q.acked \subseteq s.work
    BY <2>6, <2>15, Zenon
  <2>17. UNCHANGED <<issued, durable, promised, void>> /\ tx' = [tx EXCEPT ![g] = q]
    BY <2>1, Zenon
  <2> HIDE DEF h, k
  <2>18. q.spent = tx[g].spent /\ q.acked = tx[g].acked
    BY <2>11, Zenon DEF h
  <2> QED BY <1>18, <2>3, <2>5, <2>6, <2>11, <2>13, <2>14, <2>16, <2>17, <2>18, Zenon
<1>21. ASSUME NEW g \in Guests, BeginTransaction(g) PROVE DbInv'
  <2> DEFINE k == [Clean(g) EXCEPT !.sql = "open"]
  <2>1. PICK c \in Conns : /\ Free(c) /\ conn' = [conn EXCEPT ![c] = k]
                           /\ tx' = [tx EXCEPT ![g] = [NoTx EXCEPT !.phase = "active", !.on = c]]
    BY <1>21, Zenon DEF BeginTransaction, Recycle
  <2> DEFINE q == [NoTx EXCEPT !.phase = "active", !.on = c]
  <2>2. tx[g].phase = "none" /\ UNCHANGED <<cur, live, issued, durable, promised, void>>
    BY <1>21 DEF BeginTransaction, TryTrack
  <2>3. k \in Sessions /\ k.sql = "open" /\ k.unseen = FALSE /\ k.owner = g /\ k.work = {}
    BY Zenon DEF Clean, Sessions
  <2>4. q \in TxStates /\ q.phase = "active" /\ q.on = c /\ q.spent = FALSE /\ q.acked = {}
    BY Zenon DEF NoTx, TxStates
  <2> HIDE DEF k, q
  <2>5. /\ conn' \in [Conns -> Sessions] /\ conn'[c] = k /\ \A d \in Conns : d # c => conn'[d] = conn[d]
    BY <1>4, <2>1, <2>3, Zenon
  <2>6. tx' \in [Guests -> TxStates] /\ tx'[g] = q /\ \A x \in Guests : x # g => tx'[x] = tx[x]
    BY <1>5, <2>1, <2>4, Zenon DEF q
  <2>7. DbType'
    BY <1>t, <2>2, <2>5, <2>6, Zenon DEF DbType
  <2>8. Local(g)
    BY <1>t, <2>1, <2>2, <2>5, <2>6 DEF DbType, Local, Free
  <2>9. cur[g] # "transaction"
    BY <2>2, Zenon DEF DbInv, SessionFits, Held
  <2>10. Backed(g, k)'
    BY <2>3, <2>4, <2>6, Zenon DEF Backed
  <2>11. SessionFits(g)'
    BY <2>2, <2>3, <2>4, <2>5, <2>6, <2>9, <2>10, Zenon DEF SessionFits, Held
  <2> QED BY <1>2, <2>2, <2>7, <2>8, <2>11, Zenon DEF DbInv, CommitTellsTruth, RollbackHolds
<1>22. ASSUME NEW g \in Guests, NEW b \in BOOLEAN, Finish(g, b) PROVE DbInv'
  <2> DEFINE c == tx[g].on
             h == tx[g]
             k == conn[tx[g].on]
             pois == tx[g].phase = "poisoned"
             over == [h EXCEPT !.phase = "completed", !.on = "none", !.spent = TRUE]
             tired == [h EXCEPT !.spent = TRUE]
  <2>1. PICK r \in IF b /\ ~pois THEN Commit(k) ELSE Rollback(k) :
       /\ conn' = [conn EXCEPT ![c] = IF r.ok THEN HandBack(r.session) ELSE r.session]
       /\ durable' = durable \cup r.committed
       /\ tx' = [tx EXCEPT ![g] = IF r.ok THEN over ELSE tired]
       /\ promised' = IF r.ok /\ b /\ ~pois THEN promised \cup h.acked ELSE promised
       /\ void' = IF r.ok /\ (pois \/ ~b) THEN void \cup h.acked ELSE void
    BY <1>22, Zenon DEF Finish
  <2>2. EnsureOperation(g) /\ UNCHANGED <<cur, live, issued>>
    BY <1>22, Zenon DEF Finish
  <2>3. /\ Held(g) /\ h \in TxStates /\ c \in Conns /\ k \in Sessions /\ k.owner = g /\ ~h.spent /\ ~h.cursor
        /\ Backed(g, k) /\ cur[g] # "transaction" /\ h.acked \subseteq Own(g)
    BY <1>16, <2>2, Zenon
  <2>4. ~pois => h.phase = "active"
    BY <2>3, Zenon DEF Held
  <2>5. over \in TxStates /\ over.phase = "completed" /\ over.on = "none" /\ over.spent = TRUE /\ over.acked = h.acked
    BY <2>3, Zenon DEF TxStates
  <2>6. tired \in TxStates /\ tired.phase = h.phase /\ tired.on = c /\ tired.spent = TRUE /\ tired.acked = h.acked
    BY <2>3, Zenon DEF TxStates
  <2>7. r \in Commit(k) \cup Rollback(k) /\ (r \in Rollback(k) \/ (r \in Commit(k) /\ b /\ ~pois))
        /\ (b /\ ~pois => r \in Commit(k)) /\ (~b \/ pois => r \in Rollback(k))
    <3> HIDE DEF k, pois
    <3>1. CASE b /\ ~pois
      BY <3>1, Zenon
    <3>2. CASE ~b \/ pois
      <4>1. r \in Rollback(k)
        BY <3>2, Zenon
      <4>2. ~(b /\ ~pois)
        BY <3>2, Zenon
      <4> QED BY <3>2, <4>1, <4>2, Zenon
    <3> QED BY <3>1, <3>2, Zenon
  <2> HIDE DEF k, h, pois, over, tired
  <2>8. /\ r.session \in Sessions /\ r.session.owner = g
        /\ r.ok \in BOOLEAN /\ r.committed \subseteq k.work
        /\ r \in Commit(k) /\ r.ok => k.alive /\ r.committed = k.work
        /\ r \in Rollback(k) => r.committed = {}
    BY <2>3, <2>7, TerminalReplies, Zenon
  <2> DEFINE s == IF r.ok THEN HandBack(r.session) ELSE r.session
             q == IF r.ok THEN over ELSE tired
  <2>9. s \in Sessions /\ (~r.ok => s.owner = g) /\ conn' = [conn EXCEPT ![c] = s]
    BY <1>8, <2>1, <2>8, Zenon
  <2>10. q \in TxStates /\ q.spent = TRUE /\ q.acked = h.acked /\ tx' = [tx EXCEPT ![g] = q]
         /\ (r.ok => q.phase = "completed" /\ q.on = "none") /\ (~r.ok => q.on = c)
    BY <2>1, <2>5, <2>6, <2>8, Zenon
  <2> HIDE DEF s, q
  <2>11. /\ conn' \in [Conns -> Sessions] /\ conn'[c] = s /\ \A d \in Conns : d # c => conn'[d] = conn[d]
    BY <1>4, <2>3, <2>9, Zenon
  <2>12. tx' \in [Guests -> TxStates] /\ tx'[g] = q /\ \A x \in Guests : x # g => tx'[x] = tx[x]
    BY <1>5, <2>10, Zenon
  <2>13. issued' \in [Guests -> Nat] /\ issued[g] <= issued'[g] /\ Own(g)' = Own(g)
    BY <1>t, <2>2 DEF DbType, Own
  <2>14. durable' \subseteq durable \cup Own(g)' /\ void' \subseteq void \cup Own(g)'
    BY <2>1, <2>3, <2>8, <2>13, Zenon DEF Backed
  <2>15. DbType' /\ Local(g)
    <3>1. cur' \in [Guests -> {"none", "connection", "transaction", "exhausted"}]
      BY <1>t, <2>2, Zenon DEF DbType
    <3> QED BY <1>15, <2>2, <2>3, <2>11, <2>12, <2>13, <2>14, <3>1, Zenon
  <2>16. SessionFits(g)'
    <3>1. Held(g)' => tx'[g].on \in Conns /\ conn'[tx'[g].on].owner = g
      BY <2>3, <2>8, <2>9, <2>10, <2>11, <2>12, Zenon DEF Held
    <3>2. ~Held(g)' => tx'[g].on = "none"
      BY <2>3, <2>6, <2>8, <2>10, <2>12, Zenon DEF Held, q, h
    <3>3. tx'[g].spent = TRUE /\ Abandoned(g)' = {} /\ tx'[g].acked \subseteq Own(g)' /\ cur'[g] # "transaction"
      BY <2>2, <2>3, <2>10, <2>12, <2>13 DEF Abandoned
    <3> QED BY <3>1, <3>2, <3>3, Zenon DEF SessionFits
  <2>17. k.work \cap void = {} /\ h.acked \cap durable = {}
         /\ (r.ok /\ b /\ ~pois => h.acked \subseteq r.committed)
    BY <2>3, <2>4, <2>7, <2>8, Zenon DEF Backed, h
  <2>18. CommitTellsTruth'
    BY <2>1, <2>17, Zenon DEF DbInv, CommitTellsTruth
  <2>19. RollbackHolds'
    <3>1. CASE r \in Rollback(k)
      BY <2>1, <2>8, <2>17, <3>1, Zenon DEF DbInv, RollbackHolds
    <3>2. CASE r \in Commit(k) /\ b /\ ~pois
      BY <2>1, <2>8, <2>17, <3>2, Zenon DEF DbInv, RollbackHolds
    <3> QED BY <2>7, <3>1, <3>2, Zenon
  <2> QED BY <1>2, <2>15, <2>16, <2>18, <2>19, Zenon
(* the guest's transaction is gone, and connections it held may have changed *)
<1>23. ASSUME NEW g \in Guests, conn' \in [Conns -> Sessions],
              \A c \in Conns : conn[c].owner # g => conn'[c] = conn[c],
              tx' = [tx EXCEPT ![g] = NoTx],
              cur' \in [Guests -> {"none", "connection", "transaction", "exhausted"}],
              \A x \in Guests : x # g => cur'[x] = cur[x], cur'[g] # "transaction",
              issued' \in [Guests -> Nat], issued[g] <= issued'[g],
              \A x \in Guests : x # g => issued'[x] = issued[x],
              durable' \subseteq durable \cup Own(g)', void' \subseteq void \cup Own(g)',
              CommitTellsTruth', RollbackHolds'
       PROVE  DbInv'
  <2>1. NoTx \in TxStates /\ NoTx.phase = "none" /\ NoTx.on = "none" /\ NoTx.acked = {}
    BY Zenon DEF NoTx, TxStates
  <2>2. tx' \in [Guests -> TxStates] /\ tx'[g] = NoTx /\ \A x \in Guests : x # g => tx'[x] = tx[x]
    BY <1>5, <1>23, <2>1, Zenon
  <2>3. DbType' /\ Local(g)
    BY <1>23, <2>2, Zenon DEF DbType, Local
  <2>4. ~Held(g)' /\ Abandoned(g)' = {}
    BY <2>1, <2>2, Zenon DEF Held, Abandoned
  <2>5. SessionFits(g)'
    BY <1>23, <2>1, <2>2, <2>4, Zenon DEF SessionFits
  <2> QED BY <1>2, <1>23, <2>3, <2>5, Zenon
<1>24. ASSUME NEW g \in Guests
       PROVE  /\ Abandoned(g) \subseteq Own(g) /\ Abandoned(g) \cap durable = {}
              /\ tx[g].on # "none" => tx[g].on \in Conns /\ conn[tx[g].on].owner = g
  <2>1. SessionFits(g)
    BY Zenon DEF DbInv
  <2>2. CASE ~Held(g)
    BY <2>1, <2>2, Zenon DEF SessionFits
  <2>3. CASE Held(g)
    BY <2>1, <2>3, Zenon DEF SessionFits, Backed, Abandoned
  <2> QED BY <2>2, <2>3, Zenon
<1>25. ASSUME NEW g \in Guests, NEW cs \in [Conns -> Sessions]
       PROVE  /\ Release(g, cs) \in [Conns -> Sessions]
              /\ \A c \in Conns : cs[c].owner # g => Release(g, cs)[c] = cs[c]
  <2>1. \A c \in Conns : Close(c) \in Sessions /\ HandBack(cs[c]) \in Sessions
    BY <1>7, <1>8, Zenon DEF Close
  <2> QED BY <2>1, Zenon DEF Release
<1>26. ASSUME NEW g \in Guests, Gone(g)
       PROVE  /\ cur' \in [Guests -> {"none", "connection", "transaction", "exhausted"}]
              /\ cur'[g] = "none" /\ \A x \in Guests : x # g => cur'[x] = cur[x]
              /\ tx' = [tx EXCEPT ![g] = NoTx]
  BY <1>6, <1>26, Zenon DEF Gone
<1>27. ASSUME NEW g \in Guests, DropTx(g) PROVE DbInv'
  <2> DEFINE c == tx[g].on
             k == conn[tx[g].on]
             z == [k EXCEPT !.sql = "idle", !.work = {}]
             s == IF tx[g].discard \/ ~k.alive THEN Close(c) ELSE HandBack(z)
  <2>1. /\ UNCHANGED <<cur, live, issued, durable, promised>> /\ void' = void \cup Abandoned(g)
        /\ tx' = [tx EXCEPT ![g] = NoTx] /\ ~tx[g].cursor
        /\ conn' = IF c = "none" THEN conn ELSE [conn EXCEPT ![c] = s]
    BY <1>27, Zenon DEF DropTx
  <2>2. conn' \in [Conns -> Sessions] /\ \A d \in Conns : conn[d].owner # g => conn'[d] = conn[d]
    <3>1. CASE c = "none"
      BY <1>t, <2>1, <3>1, Zenon DEF DbType
    <3>2. CASE c # "none"
      <4>1. c \in Conns /\ conn[c].owner = g
        BY <1>24, <3>2, Zenon
      <4>2. k \in Sessions
        BY <1>t, <4>1, Zenon DEF DbType
      <4>3. z \in Sessions
        BY <4>2, Zenon DEF Sessions
      <4>4. s \in Sessions
        BY <1>7, <1>8, <4>3, Zenon DEF Close
      <4> HIDE DEF s
      <4> QED BY <1>4, <2>1, <3>2, <4>1, <4>4, Zenon
    <3> QED BY <3>1, <3>2, Zenon
  <2>3. cur[g] # "transaction" /\ cur \in [Guests -> {"none", "connection", "transaction", "exhausted"}]
        /\ issued \in [Guests -> Nat] /\ issued[g] <= issued[g] /\ Own(g)' = Own(g)
    BY <1>t, <2>1 DEF DbInv, SessionFits, DbType, Own
  <2>4. CommitTellsTruth' /\ RollbackHolds'
    BY <1>24, <2>1, Zenon DEF DbInv, CommitTellsTruth, RollbackHolds
  <2>5. durable' \subseteq durable \cup Own(g)' /\ void' \subseteq void \cup Own(g)'
    BY <1>24, <2>1, <2>3
  <2> QED BY <1>23, <2>1, <2>2, <2>3, <2>4, <2>5, Zenon
<1>28. ASSUME NEW g \in Guests, DropStore(g) PROVE DbInv'
  <2>1. /\ UNCHANGED <<issued, durable, promised>> /\ void' = void \cup Abandoned(g)
        /\ Gone(g) /\ conn' = Release(g, conn)
    BY <1>28, Zenon DEF DropStore
  <2>2. conn' \in [Conns -> Sessions] /\ \A d \in Conns : conn[d].owner # g => conn'[d] = conn[d]
    BY <1>25, <1>t, <2>1 DEF DbType
  <2>3. issued \in [Guests -> Nat] /\ issued[g] <= issued[g] /\ Own(g)' = Own(g)
    BY <1>t, <2>1 DEF DbType, Own
  <2>4. CommitTellsTruth' /\ RollbackHolds'
    BY <1>24, <2>1, Zenon DEF DbInv, CommitTellsTruth, RollbackHolds
  <2>5. durable' \subseteq durable \cup Own(g)' /\ void' \subseteq void \cup Own(g)'
    BY <1>24, <2>1, <2>3
  <2>6. /\ cur' \in [Guests -> {"none", "connection", "transaction", "exhausted"}]
        /\ cur'[g] = "none" /\ \A x \in Guests : x # g => cur'[x] = cur[x]
        /\ tx' = [tx EXCEPT ![g] = NoTx]
    BY <1>26, <2>1, Zenon
  <2> QED BY <1>23, <2>1, <2>2, <2>3, <2>4, <2>5, <2>6, Zenon
<1>29. ASSUME NEW g \in Guests, CancelStatement(g) PROVE DbInv'
  <2> DEFINE c == tx[g].on
             k == conn[tx[g].on]
             s == [k EXCEPT !.work = k.work \cup {Stmt(g)}]
             cs == [conn EXCEPT ![c] = s]
  <2>1. /\ UNCHANGED <<durable, promised>> /\ void' = void \cup Abandoned(g) \cup {Stmt(g)}
        /\ Gone(g) /\ Issue(g) /\ EnsureOperation(g)
        /\ conn' = Release(g, [conn EXCEPT ![c].work = @ \cup {Stmt(g)}])
    BY <1>29, Zenon DEF CancelStatement
  <2>2. /\ Stmt(g) \in Stmts /\ Stmt(g) \notin void \cup durable
        /\ issued' \in [Guests -> Nat] /\ Stmt(g) \in Own(g)' /\ Own(g) \subseteq Own(g)'
        /\ issued[g] <= issued'[g] /\ \A x \in Guests : x # g => issued'[x] = issued[x]
    BY <1>3, <2>1, Zenon
  <2>3. c \in Conns /\ k \in Sessions /\ k.owner = g
    BY <1>16, <2>1, Zenon
  <2>4. s \in Sessions /\ s.owner = g
    BY <2>2, <2>3, Zenon DEF Sessions
  <2>5. [conn EXCEPT ![c].work = @ \cup {Stmt(g)}] = cs
    BY <1>t, <2>3, Zenon DEF DbType
  <2> HIDE DEF s
  <2>6. cs \in [Conns -> Sessions] /\ \A d \in Conns : conn[d].owner # g => cs[d] = conn[d] /\ cs[d].owner # g
    BY <1>t, <2>3, <2>4, Zenon DEF DbType
  <2> HIDE DEF cs
  <2>7. conn' \in [Conns -> Sessions] /\ \A d \in Conns : conn[d].owner # g => conn'[d] = conn[d]
    BY <1>25, <2>1, <2>5, <2>6, Zenon
  <2>8. CommitTellsTruth' /\ RollbackHolds'
    BY <1>24, <2>1, <2>2 DEF DbInv, CommitTellsTruth, RollbackHolds
  <2>9. durable' \subseteq durable \cup Own(g)' /\ void' \subseteq void \cup Own(g)'
    BY <1>24, <2>1, <2>2, Zenon
  <2>10. /\ cur' \in [Guests -> {"none", "connection", "transaction", "exhausted"}]
         /\ cur'[g] = "none" /\ \A x \in Guests : x # g => cur'[x] = cur[x]
         /\ tx' = [tx EXCEPT ![g] = NoTx]
    BY <1>26, <2>1, Zenon
  <2> QED BY <1>23, <2>1, <2>2, <2>7, <2>8, <2>9, <2>10, Zenon
<1>30. ASSUME NEW g \in Guests, CancelCommit(g) PROVE DbInv'
  <2> DEFINE c == tx[g].on
             k == conn[tx[g].on]
  <2>1. /\ UNCHANGED <<issued, promised, void>> /\ Gone(g) /\ EnsureOperation(g)
        /\ conn' = [Release(g, conn) EXCEPT ![c] = Close(c)]
    BY <1>30, Zenon DEF CancelCommit
  <2>2. PICK r \in Commit(k) : durable' = durable \cup r.committed
    BY <1>30, Zenon DEF CancelCommit
  <2>3. c \in Conns /\ k \in Sessions /\ k.owner = g /\ Backed(g, k)
    BY <1>16, <2>1, Zenon
  <2>4. r.committed \subseteq k.work
    BY <2>3, TerminalReplies, Zenon
  <2>5. Close(c) \in Sessions
    BY <1>7, Zenon DEF Close
  <2>6. Release(g, conn) \in [Conns -> Sessions] /\ \A d \in Conns : conn[d].owner # g => Release(g, conn)[d] = conn[d]
    BY <1>25, <1>t, Zenon DEF DbType
  <2>7. conn' \in [Conns -> Sessions] /\ \A d \in Conns : conn[d].owner # g => conn'[d] = conn[d]
    BY <2>1, <2>3, <2>5, <2>6, Zenon
  <2>8. issued \in [Guests -> Nat] /\ issued[g] <= issued[g] /\ Own(g)' = Own(g)
    BY <1>t, <2>1 DEF DbType, Own
  <2>9. durable' \subseteq durable \cup Own(g)' /\ void' \subseteq void \cup Own(g)'
    BY <2>1, <2>2, <2>3, <2>4, <2>8, Zenon DEF Backed
  <2>10. CommitTellsTruth' /\ RollbackHolds'
    BY <2>1, <2>2, <2>3, <2>4, Zenon DEF DbInv, CommitTellsTruth, RollbackHolds, Backed
  <2>11. /\ cur' \in [Guests -> {"none", "connection", "transaction", "exhausted"}]
         /\ cur'[g] = "none" /\ \A x \in Guests : x # g => cur'[x] = cur[x]
         /\ tx' = [tx EXCEPT ![g] = NoTx]
    BY <1>26, <2>1, Zenon
  <2> QED BY <1>23, <2>1, <2>7, <2>8, <2>9, <2>10, <2>11, Zenon
<1>31. ASSUME NEW c \in Conns, LoseConnection(c) PROVE DbInv'
  <2> DEFINE k == conn[c]
             s == [k EXCEPT !.alive = FALSE, !.work = {}]
  <2>1. conn' = [conn EXCEPT ![c] = s] /\ UNCHANGED <<tx, cur, live, issued, durable, promised, void>>
    BY <1>31, Zenon DEF LoseConnection
  <2>2. k \in Sessions
    BY <1>t, Zenon DEF DbType
  <2>3. s \in Sessions /\ s.alive = FALSE /\ s.work = {} /\ s.sql = k.sql /\ s.unseen = k.unseen /\ s.owner = k.owner
    BY <2>2, Zenon DEF Sessions
  <2> HIDE DEF s
  <2>4. conn' \in [Conns -> Sessions] /\ conn'[c] = s /\ \A d \in Conns : d # c => conn'[d] = conn[d]
    BY <1>4, <2>1, <2>3, Zenon
  <2>5. ASSUME NEW g \in Guests PROVE SessionFits(g)'
    <3>1. SessionFits(g) /\ Held(g)' = Held(g) /\ Own(g)' = Own(g) /\ Abandoned(g)' = Abandoned(g)
      BY <2>1, Zenon DEF DbInv, Held, Own, Abandoned
    <3>2. Held(g) => tx[g].on \in Conns /\ conn'[tx[g].on].owner = g
      BY <2>3, <2>4, <3>1, Zenon DEF SessionFits
    <3>3. Held(g) /\ ~tx[g].spent => Backed(g, conn[tx[g].on])'
      <4> SUFFICES ASSUME Held(g), ~tx[g].spent PROVE Backed(g, conn[tx[g].on])'
        BY Zenon
      <4>1. Backed(g, conn[tx[g].on]) /\ tx[g].on \in Conns
        BY <3>1, Zenon DEF SessionFits
      <4>2. CASE tx[g].on = c
        BY <2>1, <2>3, <2>4, <3>1, <4>1, <4>2, Zenon DEF Backed
      <4>3. CASE tx[g].on # c
        BY <2>1, <2>4, <3>1, <4>1, <4>3 DEF Backed
      <4> QED BY <4>2, <4>3, Zenon
    <3> QED BY <2>1, <3>1, <3>2, <3>3, Zenon DEF SessionFits
  <2>6. DbType'
    BY <1>t, <2>1, <2>4, Zenon DEF DbType
  <2>7. \A s1 \in void' \cup durable' : s1 \in Stmts /\ s1 \in Own(s1[1])'
    BY <2>1, Zenon DEF DbInv, Own
  <2> QED BY <2>1, <2>5, <2>6, <2>7, Zenon DEF DbInv, CommitTellsTruth, RollbackHolds
<1>32. CASE UNCHANGED dbVars
  <2>1. ASSUME NEW g \in Guests PROVE SessionFits(g)'
    BY <1>32 DEF DbInv, SessionFits, Held, Own, Abandoned, Backed, dbVars
  <2>2. \A s \in void' \cup durable' : s \in Stmts /\ s \in Own(s[1])'
    BY <1>32, Zenon DEF DbInv, Own, dbVars
  <2> QED BY <1>32, <2>1, <2>2, Zenon DEF DbInv, DbType, CommitTellsTruth, RollbackHolds, dbVars
<1> QED
  BY <1>10, <1>12, <1>13, <1>14, <1>17, <1>19, <1>20, <1>21, <1>22, <1>27, <1>28, <1>29, <1>30, <1>31, <1>32, Zenon
     DEF DbNext

(* A fresh pool satisfies DbInv: no guest holds a connection.              *)
LEMMA DbStarts == DbInit => DbInv
<1> SUFFICES ASSUME DbInit PROVE DbInv
  BY Zenon
<1>1. DbType
  BY Zenon DEF DbInit, DbType, Clean, NoTx, Sessions, TxStates
<1>2. \A g \in Guests : SessionFits(g)
  BY Zenon DEF DbInit, NoTx, SessionFits, Held, Abandoned
<1> QED BY <1>1, <1>2, Zenon DEF DbInit, DbInv, CommitTellsTruth, RollbackHolds

(* A commit that was reported as Ok is durable, for guests that leave      *)
(* BEGIN, COMMIT and ROLLBACK to the transaction resource (transaction.rs  *)
(* finish_transaction, cursor.rs, pool.rs GUEST_RECYCLE_SQL).              *)
THEOREM CommitWasTrue == ASSUME Raw = {} PROVE DbSpec => []CommitTellsTruth
<1>1. DbInv /\ [DbNext]_dbVars => DbInv'
  BY DbStep, Zenon
<1>2. DbInv => CommitTellsTruth
  BY Zenon DEF DbInv
<1> QED
  BY <1>1, <1>2, DbStarts, PTL DEF DbSpec

(* What a guest was told is rolled back never becomes durable, whoever     *)
(* uses the connection next (transaction.rs finish_transaction and drop,   *)
(* pool.rs recycle), for the same guests.                                  *)
THEOREM RollbackHeld == ASSUME Raw = {} PROVE DbSpec => []RollbackHolds
<1>1. DbInv /\ [DbNext]_dbVars => DbInv'
  BY DbStep, Zenon
<1>2. DbInv => RollbackHolds
  BY Zenon DEF DbInv
<1> QED
  BY <1>1, <1>2, DbStarts, PTL DEF DbSpec
=============================================================================
