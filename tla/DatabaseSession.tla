--------------------------- MODULE DatabaseSession ---------------------------
(***************************************************************************)
(* The database capability of a guest module: the host side of the WIT     *)
(* `transaction` and `row-cursor` resources (wr-engine/src/db), the guest  *)
(* pool they take connections from (wr-common/src/pool.rs) and the         *)
(* wrapper of wr-sdk/src/db.rs that consumes a transaction when it is      *)
(* committed or rolled back.                                               *)
(*                                                                         *)
(* Each guest is one store: its host calls are serialised, and the store   *)
(* can be dropped (trap, timeout, cancelled request) between two calls or  *)
(* inside one.  PostgreSQL is external: a session is idle, in an open      *)
(* transaction or in an aborted one.                                       *)
(***************************************************************************)
EXTENDS Integers, FiniteSets

CONSTANTS
  Guests,        \* stores that share one namespace pool
  Raw,           \* the guests that call the WIT interface without wr-sdk
  Conns,         \* the pool's slots (max_size)
  MaxStatements, \* bound: statements one guest issues
  MaxTx,         \* [limits].max_db_transactions
  MaxCursors     \* [limits].max_db_cursors

\* A guest is modelled with one resource of each kind.
ASSUME SessionAssumption ==
  /\ Raw \subseteq Guests /\ "pool" \notin Guests /\ "none" \notin Conns
  /\ MaxTx \in {0, 1} /\ MaxCursors \in {0, 1}

VARIABLES
  conn,      \* slot -> PostgreSQL session and who holds it
  tx,        \* guest -> its transaction resource
  cur,       \* guest -> its row-cursor resource
  live,      \* the guests whose store exists
  issued,    \* guest -> statements issued so far
  durable,   \* statements whose effect is committed
  promised,  \* statements a guest was told are committed
  void       \* statements a guest was told are rolled back

dbVars == <<conn, tx, cur, live, issued, durable, promised, void>>

Clean(owner) ==
  [sql |-> "idle", work |-> {}, unseen |-> FALSE, alive |-> TRUE, owner |-> owner]

NoTx == [phase |-> "none", cursor |-> FALSE, discard |-> FALSE, spent |-> FALSE,
         acked |-> {}, on |-> "none"]

DbInit ==
  /\ conn = [c \in Conns |-> Clean("pool")]
  /\ tx = [g \in Guests |-> NoTx]
  /\ cur = [g \in Guests |-> "none"]
  /\ live = Guests
  /\ issued = [g \in Guests |-> 0]
  /\ durable = {} /\ promised = {} /\ void = {}

-----------------------------------------------------------------------------
(* PostgreSQL (external): what one command does to a session.  `ok` is     *)
(* what the client is told; a dead session answers every command with an   *)
(* error.                                                                  *)

DbReply(k, ok, committed) == [session |-> k, ok |-> ok, committed |-> committed]

Statement(k, s) ==
  IF ~k.alive \/ k.sql = "aborted" THEN {DbReply(k, FALSE, {})}
  ELSE { DbReply([k EXCEPT !.sql = IF @ = "open" THEN "aborted" ELSE @,
                         !.work = {}], FALSE, {}),
         IF k.sql = "open" THEN DbReply([k EXCEPT !.work = @ \cup {s}], TRUE, {})
                           ELSE DbReply(k, TRUE, {s}) }

\* COMMIT of an aborted transaction succeeds and rolls back; COMMIT of an open
\* one may still be refused (deferred constraint, serialization failure), or
\* be applied although its answer is lost with the connection.
Commit(k) ==
  LET over == [k EXCEPT !.sql = "idle", !.work = {}] IN
  IF ~k.alive THEN {DbReply(k, FALSE, {})}
  ELSE {DbReply(over, TRUE, k.work)} \cup
       (IF k.sql = "open"
        THEN {DbReply(over, FALSE, {}), DbReply([over EXCEPT !.alive = FALSE], FALSE, k.work)}
        ELSE {})

Rollback(k) ==
  {DbReply([k EXCEPT !.sql = "idle", !.work = {}], k.alive, {})}

-----------------------------------------------------------------------------
(* The guest pool.                                                         *)

Free(c) == conn[c].owner = "pool"

\* GUEST_RECYCLE_SQL runs before a connection is handed out again; a session
\* on which it fails or times out is replaced by a new one.  The checkout then
\* verifies the identity and applies search_path and timeouts, discarding the
\* connection on failure.
Recycle(c, g) == Clean(g)

Close(c) == Clean("pool")
HandBack(k) == [k EXCEPT !.owner = "pool"]

TryTrack(count, cap) == count < cap

\* What the guest is told of a reply: result conversion in the host, and row
\* decoding or a cardinality check in wr-sdk, can make an error of a statement
\* that succeeded, never the other way.
Told(r) == IF r.ok THEN BOOLEAN ELSE {FALSE}

-----------------------------------------------------------------------------
(* Calls outside a transaction.                                            *)

Stmt(g) == <<g, issued[g] + 1>>

Issue(g) ==
  /\ g \in live
  /\ issued[g] < MaxStatements
  /\ issued' = [issued EXCEPT ![g] = @ + 1]

\* host.rs query / execute: one connection for one statement.
Execute(g) ==
  /\ Issue(g)
  /\ \E c \in Conns : Free(c) /\
       \E r \in Statement(Recycle(c, g), Stmt(g)) :
         /\ conn' = [conn EXCEPT ![c] = HandBack(r.session)]
         /\ durable' = durable \cup r.committed
         /\ \E told \in Told(r) :
              promised' = IF told THEN promised \cup {Stmt(g)} ELSE promised
  /\ UNCHANGED <<tx, cur, live, void>>

\* host.rs query_stream: the cursor keeps the connection.
OpenCursor(g) ==
  /\ g \in live
  /\ TryTrack(IF cur[g] = "none" THEN 0 ELSE 1, MaxCursors)
  /\ \E c \in Conns : Free(c) /\ conn' = [conn EXCEPT ![c] = Recycle(c, g)]
  /\ cur' = [cur EXCEPT ![g] = "connection"]
  /\ UNCHANGED <<tx, live, issued, durable, promised, void>>

\* cursor.rs: end of stream, error or drop; the lease goes back undrained.
EndCursor(g) ==
  /\ g \in live
  /\ cur[g] = "connection"
  /\ \E c \in Conns : /\ conn[c].owner = g /\ tx[g].on # c
                      /\ conn' = [conn EXCEPT ![c] = HandBack(@)]
  /\ \E left \in {"exhausted", "none"} : cur' = [cur EXCEPT ![g] = left]
  /\ UNCHANGED <<tx, live, issued, durable, promised, void>>

DropCursor(g) ==
  /\ g \in live
  /\ cur[g] = "exhausted"
  /\ cur' = [cur EXCEPT ![g] = "none"]
  /\ UNCHANGED <<conn, tx, live, issued, durable, promised, void>>

-----------------------------------------------------------------------------
(* Transactions.                                                           *)

\* host.rs begin_transaction.
BeginTransaction(g) ==
  /\ g \in live
  /\ TryTrack(IF tx[g].phase = "none" THEN 0 ELSE 1, MaxTx)
  /\ \E c \in Conns :
       LET k == Recycle(c, g) IN
       /\ Free(c)
       /\ k.sql # "aborted"
       /\ conn' = [conn EXCEPT ![c] = [k EXCEPT !.sql = "open"]]
       /\ tx' = [tx EXCEPT ![g] = [NoTx EXCEPT !.phase = "active", !.on = c]]
  /\ UNCHANGED <<cur, live, issued, durable, promised, void>>

\* wr-sdk's Transaction is consumed by commit and rollback, whatever they
\* return, so only a raw guest calls a spent transaction again.
Reaches(g) == tx[g].spent => g \in Raw

\* ensure_operation, ensure_terminal.
EnsureOperation(g) ==
  /\ g \in live
  /\ tx[g].phase \in {"active", "poisoned"}
  /\ ~tx[g].cursor
  /\ ~tx[g].discard
  /\ Reaches(g)

Poison(t) == [t EXCEPT !.phase = "poisoned"]
MarkDiscard(t) == [Poison(t) EXCEPT !.discard = TRUE]

\* transaction.rs query / execute.  A failed result conversion does not poison.
TxExecute(g) ==
  /\ Issue(g)
  /\ EnsureOperation(g)
  /\ \E r \in Statement(conn[tx[g].on], Stmt(g)) : \E told \in Told(r) :
       /\ conn' = [conn EXCEPT ![tx[g].on] = r.session]
       /\ durable' = durable \cup r.committed
       /\ tx' = [tx EXCEPT ![g] = IF ~r.ok THEN Poison(tx[g])
                                  ELSE [tx[g] EXCEPT !.acked = IF told THEN @ \cup {Stmt(g)} ELSE @]]
  /\ UNCHANGED <<cur, live, promised, void>>

\* transaction.rs query_stream: the stream may fail at once, or after rows have
\* been sent, which the host sees only when it reads that far.
TxOpenCursor(g) ==
  LET c == tx[g].on
      opened == /\ tx' = [tx EXCEPT ![g].cursor = TRUE]
                /\ cur' = [cur EXCEPT ![g] = "transaction"]
      aborted == [conn[c] EXCEPT !.sql = IF @ = "open" THEN "aborted" ELSE @, !.work = {}]
  IN
  /\ EnsureOperation(g)
  /\ TryTrack(IF cur[g] = "none" THEN 0 ELSE 1, MaxCursors)
  /\ \/ /\ conn[c].alive /\ conn[c].sql # "aborted"
        /\ conn' = conn
        /\ opened
     \/ /\ conn[c].alive /\ conn[c].sql = "open"
        /\ conn' = [conn EXCEPT ![c] = [aborted EXCEPT !.unseen = TRUE]]
        /\ opened
     \/ /\ conn' = [conn EXCEPT ![c] = aborted]
        /\ tx' = [tx EXCEPT ![g] = Poison(@)]
        /\ cur' = cur
  /\ UNCHANGED <<live, issued, durable, promised, void>>

\* Defect: a dropped cursor is released without reading the rest of its stream.
ReleaseUndrained(g) ==
  [tx[g] EXCEPT !.cursor = FALSE]

\* cursor.rs finish_cursor: what draining and synchronising find out.
Drained(g) ==
  LET k == conn[tx[g].on]
      t == [tx[g] EXCEPT !.cursor = FALSE]
  IN IF ~k.alive THEN MarkDiscard(t) ELSE IF k.unseen THEN Poison(t) ELSE t

\* next_batch at the end of the stream or on an error leaves an exhausted
\* cursor; drop removes it, and traps if the drain found an error.
FinishCursor(g) ==
  /\ g \in live
  /\ cur[g] = "transaction"
  /\ tx' = [tx EXCEPT ![g] = Drained(g)]
  /\ conn' = [conn EXCEPT ![tx[g].on].unseen = FALSE]
  /\ \E left \in {"exhausted", "none"} :
       /\ left = "none" => Drained(g).phase = tx[g].phase
       /\ cur' = [cur EXCEPT ![g] = left]
  /\ UNCHANGED <<live, issued, durable, promised, void>>

\* finish_transaction.  When the terminal command fails, the resource stays
\* as it is.
Finish(g, commit) ==
  LET poisoned == tx[g].phase = "poisoned"
      k == conn[tx[g].on]
  IN
  /\ EnsureOperation(g)
  /\ \E r \in IF commit /\ ~poisoned THEN Commit(k) ELSE Rollback(k) :
       /\ conn' = [conn EXCEPT ![tx[g].on] = IF r.ok THEN HandBack(r.session) ELSE r.session]
       /\ durable' = durable \cup r.committed
       /\ tx' = [tx EXCEPT ![g] = IF r.ok THEN [@ EXCEPT !.phase = "completed", !.on = "none",
                                                         !.spent = TRUE]
                                  ELSE [@ EXCEPT !.spent = TRUE]]
       /\ promised' = IF r.ok /\ commit /\ ~poisoned THEN promised \cup tx[g].acked ELSE promised
       /\ void' = IF r.ok /\ (poisoned \/ ~commit) THEN void \cup tx[g].acked ELSE void
  /\ UNCHANGED <<cur, live, issued>>

Abandoned(g) == IF tx[g].spent THEN {} ELSE tx[g].acked

\* transaction.rs drop: ROLLBACK, or discard the connection.
DropTx(g) ==
  /\ g \in live
  /\ tx[g].phase # "none" /\ ~tx[g].cursor
  /\ conn' = IF tx[g].on = "none" THEN conn
             ELSE [conn EXCEPT ![tx[g].on] =
                     IF tx[g].discard \/ ~@.alive THEN Close(tx[g].on)
                     ELSE HandBack([@ EXCEPT !.sql = "idle", !.work = {}])]
  /\ void' = void \cup Abandoned(g)
  /\ tx' = [tx EXCEPT ![g] = NoTx]
  /\ UNCHANGED <<cur, live, issued, durable, promised>>

-----------------------------------------------------------------------------
(* The store is dropped: resources are dropped without the host's drop     *)
(* functions, so a transaction's connection goes back as it is, unless it  *)
(* is marked to be discarded (Drop for TxState).                           *)

Release(g, conns) ==
  [c \in Conns |-> IF conns[c].owner # g THEN conns[c]
                   ELSE IF c = tx[g].on /\ tx[g].discard THEN Close(c)
                   ELSE HandBack(conns[c])]

Gone(g) ==
  /\ live' = live \ {g}
  /\ tx' = [tx EXCEPT ![g] = NoTx]
  /\ cur' = [cur EXCEPT ![g] = "none"]

DropStore(g) ==
  /\ g \in live
  /\ Gone(g)
  /\ conn' = Release(g, conn)
  /\ void' = void \cup Abandoned(g)
  /\ UNCHANGED <<issued, durable, promised>>

\* ... while a statement of its transaction is in flight.
CancelStatement(g) ==
  /\ Issue(g)
  /\ EnsureOperation(g) /\ ~tx[g].spent
  /\ conn[tx[g].on].alive /\ conn[tx[g].on].sql = "open"
  /\ Gone(g)
  /\ conn' = Release(g, [conn EXCEPT ![tx[g].on].work = @ \cup {Stmt(g)}])
  /\ void' = void \cup Abandoned(g) \cup {Stmt(g)}
  /\ UNCHANGED <<durable, promised>>

\* ... while COMMIT is in flight: TerminalGuard marks the session discarded.
CancelCommit(g) ==
  /\ EnsureOperation(g) /\ tx[g].phase = "active"
  /\ Gone(g)
  /\ \E r \in Commit(conn[tx[g].on]) : durable' = durable \cup r.committed
  /\ conn' = [Release(g, conn) EXCEPT ![tx[g].on] = Close(tx[g].on)]
  /\ UNCHANGED <<issued, promised, void>>

\* PostgreSQL or the network ends a session that is checked out.
LoseConnection(c) ==
  /\ ~Free(c) /\ conn[c].alive
  /\ conn' = [conn EXCEPT ![c] = [@ EXCEPT !.alive = FALSE, !.work = {}]]
  /\ UNCHANGED <<tx, cur, live, issued, durable, promised, void>>

DbNext ==
  \/ \E g \in Guests :
       \/ Execute(g) \/ OpenCursor(g) \/ EndCursor(g) \/ DropCursor(g)
       \/ BeginTransaction(g) \/ TxExecute(g) \/ TxOpenCursor(g) \/ FinishCursor(g)
       \/ Finish(g, TRUE) \/ Finish(g, FALSE) \/ DropTx(g)
       \/ DropStore(g) \/ CancelStatement(g) \/ CancelCommit(g)
  \/ \E c \in Conns : LoseConnection(c)

DbSpec == DbInit /\ [][DbNext]_dbVars
-----------------------------------------------------------------------------
(* Properties.                                                             *)

(* What a guest was told is committed is committed: an `execute` outside a *)
(* transaction that returned Ok, and every statement of a transaction      *)
(* whose `commit` returned Ok, took effect, although PostgreSQL answers    *)
(* COMMIT of an aborted transaction with success, streams fail after rows  *)
(* were delivered, connections die and pooled connections come back in any *)
(* state (transaction.rs finish_transaction, cursor.rs finish_cursor,      *)
(* pool.rs GUEST_RECYCLE_SQL).                                             *)
CommitTellsTruth == promised \subseteq durable

(* What a guest was told is rolled back never takes effect, whoever uses   *)
(* the connection next: a rollback that returned Ok, a commit refused      *)
(* because the transaction was poisoned, and a transaction or store that   *)
(* was dropped leave nothing that a later user of the pooled connection    *)
(* could commit.                                                           *)
RollbackHolds == void \cap durable = {}
=============================================================================
