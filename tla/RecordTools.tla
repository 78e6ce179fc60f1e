------------------------------ MODULE RecordTools ------------------------------
(***************************************************************************)
(* The tools that write: create, update and delete of database records and *)
(* of vector documents (src/src/server_unified.py), with the statements    *)
(* PostgresRetriever composes and runs and the operations of               *)
(* QdrantRetriever (src/src/retrievers/postgres.py, qdrant.py).  Calls are *)
(* tasks of one event loop.  Every call tells its client what it does: it  *)
(* awaits ctx.info, ctx.warning or ctx.error, which a client that does not *)
(* read delays for ever and a broken stream refuses at any time.  The      *)
(* database commits single statements by themselves and locks the row of   *)
(* an update until its transaction ends.  The two stores share nothing but *)
(* the code around them: `kind' says which one a behaviour is about.       *)
(***************************************************************************)
EXTENDS Naturals, Sequences, FiniteSets

CONSTANTS Tasks,      \* the calls that may be in progress at once
          NoTask,     \* the row is not locked
          Ids,        \* record ids, 0 among them
          Data,       \* what callers store: sequences of column values
          NoRow,      \* there is no record of that id
          Names,      \* document ids that are integers or UUIDs
          Free,       \* document ids that are neither
          NoName,     \* the document carries no id of its own
          Fresh,      \* the document got a random UUID
          MaxSize     \* connections of the PostgreSQL pool

ASSUME RecordsAssumption ==
    /\ NoTask \notin Tasks /\ Ids \subseteq Nat /\ 0 \in Ids /\ <<>> \in Data /\ NoRow \notin Data
    /\ \A d \in Data : d \in Seq({d[i] : i \in DOMAIN d})
    /\ Names \cap Free = {} /\ Fresh \notin Names \cup Free /\ NoName \notin Names
    /\ MaxSize \in Nat \ {0}

VARIABLES
    kind,        \* "records" or "documents"
    rows,        \* the committed records
    lock,        \* the update that holds a row
    points,      \* the documents of the collection
    collection,  \* the collection exists
    task         \* where each call is, its arguments, what it has done

store == <<kind, rows, lock, points, collection>>
vars == <<store, task>>

DatabaseTools == {"create_record", "update_record", "delete_record"}
VectorTools == {"create_document", "update_document", "delete_document", "create_collection"}
Tools == DatabaseTools \cup VectorTools

(* Where a call waits: for its client, for a connection or for the database. *)
Telling == {"announce", "done", "committing", "missing", "complain"}
Places == Telling \cup {"idle", "composing", "acquiring", "running", "checking", "updating",
                       "returning"}

Call == [at : Places, op : Tools \cup {"none"},
         id : Ids \cup Names \cup Free,
         own : Names \cup {NoName},      \* the id the document carries itself
         text : BOOLEAN,                 \* the document has a text
         valid : BOOLEAN,                \* the table is allowed, the id a number
         data : Data,
         wrote : SUBSET (Ids \cup Names \cup {Fresh}),  \* what it has changed
         deaf : BOOLEAN]                 \* the answer or the notice of it was lost

(* The calls that hold a connection; an update tells of a missing record   *)
(* with its transaction open.                                              *)
Connections ==
    {t \in Tasks : \/ task[t].at \in {"running", "checking", "updating", "committing", "returning"}
                   \/ task[t].at = "missing" /\ task[t].op = "update_record"}

TypeOK ==
    /\ rows \in [Ids -> Data \cup {NoRow}] /\ lock \in [Ids -> Tasks \cup {NoTask}]
    /\ points \subseteq Names \cup {Fresh} /\ collection \in BOOLEAN
    /\ kind \in {"records", "documents"}
    /\ task \in [Tasks -> Call]
    /\ Cardinality(Connections) <= MaxSize
    /\ \A i \in Ids : lock[i] # NoTask => task[lock[i]].at = "committing"

Resting == [at |-> "idle", op |-> "none", id |-> 0, own |-> NoName, text |-> TRUE,
            valid |-> TRUE, data |-> <<>>, wrote |-> {}, deaf |-> FALSE]

(* The collection is there or not; create_collection asks again for it. *)
Init ==
    /\ kind \in {"records", "documents"}
    /\ lock = [i \in Ids |-> NoTask]
    /\ \/ kind = "records" /\ rows \in [Ids -> (Data \ {<<>>}) \cup {NoRow}]
          /\ points = {} /\ collection = FALSE
       \/ /\ kind = "documents" /\ rows = [i \in Ids |-> NoRow]
          /\ points = {} /\ collection \in BOOLEAN
    /\ task = [t \in Tasks |-> Resting]

At(t) == task[t].at
Op(t) == task[t].op
Id(t) == task[t].id

Goto(t, place) == task' = [task EXCEPT ![t].at = place]

(* The arguments of a call that is over, or about to raise with nothing   *)
(* changed, matter no more.                                                *)
End(t) == task' = [task EXCEPT ![t] = Resting]
Complain(t) ==
    task' = [task EXCEPT ![t] = IF @.wrote = {} THEN [Resting EXCEPT !.at = "complain"]
                                ELSE [@ EXCEPT !.at = "complain"]]

(* The store has changed and the call goes on; or takes the way of an error *)
(* because the answer of the database was lost.                            *)
Wrote(t, x, place) ==
    task' = [task EXCEPT ![t] = [@ EXCEPT !.at = place, !.wrote = {x}, !.text = TRUE, !.data = <<>>]]
Unheard(t, x) ==
    task' = [task EXCEPT ![t] = [@ EXCEPT !.at = "complain", !.wrote = {x}, !.data = <<>>,
                                          !.deaf = TRUE]]

-----------------------------------------------------------------------------
(* The statements *)

(* compose_update_query renumbers the placeholders of its condition one    *)
(* after the other, in the text that the earlier replacements have made.   *)
Renumbered(where, values, offset) ==
    LET after[k \in 0..values] ==
            IF k = 0 THEN where
            ELSE [j \in DOMAIN where |->
                    IF after[k - 1][j] = k THEN k + offset ELSE after[k - 1][j]]
    IN  after[values]

(* Mutant: the id goes to the place of the last column. *)
UpdateByColumn(data, id) ==
    [set |-> [i \in DOMAIN data |-> i], where |-> Renumbered(<<1>>, 1, Len(data) - 1),
     args |-> Append(data, id)]

Insert(data) == [set |-> [i \in DOMAIN data |-> i], where |-> <<>>, args |-> data]

Update(data, id) ==
    [set |-> [i \in DOMAIN data |-> i], where |-> Renumbered(<<1>>, 1, Len(data)),
     args |-> Append(data, id)]

Delete(id) == [set |-> <<>>, where |-> <<1>>, args |-> <<id>>]

(* What the database makes of it: the columns it sets, the row it is about. *)
Columns(stmt) == [i \in DOMAIN stmt.set |-> stmt.args[stmt.set[i]]]
Target(stmt) == stmt.args[stmt.where[1]]

-----------------------------------------------------------------------------
(* A call, up to its first statement *)

Request(t, op, i, own, text, valid, d) ==
    /\ At(t) = "idle"
    /\ task' = [task EXCEPT ![t] = [at |-> "announce", op |-> op, id |-> i, own |-> own,
                                    text |-> text, valid |-> valid, data |-> d,
                                    wrote |-> {}, deaf |-> FALSE]]
    /\ UNCHANGED store

RequestRecord(t) ==
    kind = "records"
    /\ \E op \in DatabaseTools, i \in Ids, valid \in BOOLEAN, d \in Data :
          /\ op = "create_record" => i = 0
          /\ op = "delete_record" => d = <<>>
          /\ Request(t, op, i, NoName, TRUE, valid, d)

RequestDocument(t) ==
    kind = "documents"
    /\ \E op \in VectorTools, i \in Names \cup Free, own \in Names \cup {NoName}, text \in BOOLEAN :
          /\ op \in {"delete_document", "create_collection"} => own = NoName /\ text
          /\ Request(t, op, i, own, text, TRUE, <<>>)

(* A database tool, its first notice taken: the retriever is not there and *)
(* the call ends, the table or the id is wrong and it complains, or it     *)
(* goes on to compose its statement.                                       *)
Announced(t) ==
    /\ At(t) = "announce" /\ Op(t) \in DatabaseTools
    /\ \/ End(t)
       \/ task[t].valid /\ Goto(t, "composing")
       \/ ~task[t].valid /\ Complain(t)
    /\ UNCHANGED store

(* Mutant: the transaction is opened before the statement is composed. *)
ComposedInTransaction(t) ==
    /\ At(t) = "composing"
    /\ IF Op(t) = "update_record" THEN Cardinality(Connections) + 1 < MaxSize
                                  ELSE Cardinality(Connections) < MaxSize
    /\ Goto(t, "acquiring")
    /\ UNCHANGED store

(* Composing takes a connection, for its quoting, and gives it back; then  *)
(* the statement takes one again.                                          *)
Composed(t) ==
    /\ At(t) = "composing" /\ Cardinality(Connections) < MaxSize
    /\ Goto(t, "acquiring")
    /\ UNCHANGED store

Acquired(t) ==
    /\ At(t) = "acquiring" /\ Cardinality(Connections) < MaxSize
    /\ Goto(t, IF Op(t) = "update_record" THEN "checking" ELSE "running")
    /\ UNCHANGED store

(* The retriever has been disconnected, or the pool, the connection or the *)
(* database fails; no update is pending.                                   *)
Fails(t) ==
    /\ At(t) \in {"composing", "acquiring", "running", "checking", "updating"}
    /\ Complain(t)
    /\ UNCHANGED store

-----------------------------------------------------------------------------
(* Records *)

(* The row is inserted under a new id, and committed; its answer may be     *)
(* lost.  A statement without columns is refused (and so is every other    *)
(* when the ids of the model have run out).                                *)
InsertRuns(t) ==
    /\ At(t) = "running" /\ Op(t) = "create_record"
    /\ LET free == {i \in Ids : task[t].data # <<>> /\ rows[i] = NoRow} IN
          \/ free = {} /\ Complain(t) /\ UNCHANGED rows
          \/ \E i \in free :
                /\ rows' = [rows EXCEPT ![i] = Columns(Insert(task[t].data))]
                /\ Wrote(t, i, "done") \/ Unheard(t, i)
    /\ UNCHANGED <<kind, lock, points, collection>>

(* The id the statement returns is tested for truth, so 0 is not found. *)
DeleteRuns(t) ==
    LET i == Target(Delete(Id(t))) IN
    /\ At(t) = "running" /\ Op(t) = "delete_record"
    /\ lock[i] = NoTask
    /\ IF rows[i] = NoRow THEN UNCHANGED rows /\ Goto(t, "missing")
       ELSE /\ rows' = [rows EXCEPT ![i] = NoRow]
            /\ Wrote(t, i, IF i = 0 THEN "missing" ELSE "done") \/ Unheard(t, i)
    /\ UNCHANGED <<kind, lock, points, collection>>

(* In the transaction: SELECT id, tested for truth too. *)
Checked(t) ==
    /\ At(t) = "checking"
    /\ Goto(t, IF rows[Id(t)] = NoRow \/ Id(t) = 0 THEN "missing" ELSE "updating")
    /\ UNCHANGED store

(* Mutant: the UPDATE is run by itself and commits. *)
UpdateAutocommits(t) ==
    /\ At(t) = "updating"
    /\ rows' = [rows EXCEPT ![Id(t)] = task[t].data]
    /\ task' = [task EXCEPT ![t].at = "committing", ![t].wrote = {Id(t)}]
    /\ UNCHANGED <<kind, lock, points, collection>>

(* The UPDATE waits for another one of its row; a row that has gone since  *)
(* the check, and a statement without columns, end the transaction.        *)
UpdateRuns(t) ==
    LET stmt == Update(task[t].data, Id(t)) IN
    /\ At(t) = "updating"
    /\ IF task[t].data # <<>> /\ Target(stmt) \in Ids
       THEN /\ lock[Target(stmt)] = NoTask
            /\ IF rows[Target(stmt)] = NoRow
               THEN Complain(t) /\ UNCHANGED lock
               ELSE Goto(t, "committing") /\ lock' = [lock EXCEPT ![Target(stmt)] = t]
       ELSE Complain(t) /\ UNCHANGED lock
    /\ UNCHANGED <<kind, rows, points, collection>>

Unlocked(t) == [i \in Ids |-> IF lock[i] = t THEN NoTask ELSE lock[i]]
Changed(t) == [i \in Ids |-> IF lock[i] = t THEN Columns(Update(task[t].data, Id(t)))
                             ELSE rows[i]]

(* The notice has been taken inside the transaction, which then commits;   *)
(* the answer to the commit may be lost.  The connection is given back.    *)
Commits(t) ==
    /\ At(t) = "committing"
    /\ rows' = Changed(t) /\ lock' = Unlocked(t)
    /\ \E i \in Ids : lock[i] = t /\ (Wrote(t, i, "returning") \/ Unheard(t, i))
    /\ UNCHANGED <<kind, points, collection>>

Returned(t) == At(t) = "returning" /\ End(t) /\ UNCHANGED store

(* The notice is refused, or the commit fails. *)
RollsBack(t) ==
    /\ At(t) = "committing"
    /\ lock' = Unlocked(t)
    /\ Complain(t)
    /\ UNCHANGED <<kind, rows, points, collection>>

-----------------------------------------------------------------------------
(* Documents: nothing in QdrantRetriever suspends, so the first notice, the *)
(* checks and the operation are one step.                                  *)

Begun(t, op) == At(t) = "announce" /\ Op(t) = op

(* An id that is neither an integer nor a UUID is replaced by a new UUID. *)
Converted(id) == IF id \in Names THEN id ELSE Fresh

(* The id that a document, or metadata merged into it, carries replaces    *)
(* the one that was converted.                                             *)
PointOf(t) == IF task[t].own # NoName THEN task[t].own ELSE Converted(Id(t))

(* create_collection, upsert and delete of QdrantRetriever: what Qdrant     *)
(* would refuse is a case of OperationFails.                               *)
MakeCollection == ~collection /\ collection' = TRUE /\ UNCHANGED points

RemovePoint(id) ==
    /\ collection /\ id \in Names
    /\ points' = points \ {id}
    /\ UNCHANGED collection

Upsert(t) ==
    /\ collection /\ task[t].text
    /\ points' = points \cup {PointOf(t)}
    /\ Wrote(t, PointOf(t), "done")
    /\ UNCHANGED <<kind, rows, lock, collection>>

(* The retriever is not there, or it, its client or Qdrant raises. *)
OperationFails(t) ==
    /\ At(t) = "announce" /\ Op(t) \in VectorTools
    /\ End(t) \/ Complain(t)
    /\ UNCHANGED store

CreateCollection(t) ==
    /\ Begun(t, "create_collection") /\ MakeCollection
    /\ Goto(t, "done")
    /\ UNCHANGED <<kind, rows, lock>>

CreateDocument(t) == Begun(t, "create_document") /\ Upsert(t)

(* Whether there is such a document makes no difference. *)
UpdateDocument(t) == Begun(t, "update_document") /\ Upsert(t)

DeleteDocument(t) ==
    /\ Begun(t, "delete_document") /\ RemovePoint(Id(t))
    /\ Wrote(t, Id(t), "done")
    /\ UNCHANGED <<kind, rows, lock>>

-----------------------------------------------------------------------------
(* The end of a call *)

(* ctx.info after a success; ctx.warning of a missing record, whose own    *)
(* ToolError the handler around it catches; ctx.error before a ToolError.  *)
Told(t) ==
    /\ At(t) \in {"done", "missing", "complain"}
    /\ IF At(t) = "missing" THEN Complain(t) ELSE End(t)
    /\ UNCHANGED store

(* A notice is refused: the first one ends the call, that of a success or  *)
(* of a missing record makes it complain, and what was committed stays.    *)
Refused(t) ==
    /\ At(t) \in {"announce", "done", "missing", "complain"}
    /\ IF At(t) \in {"done", "missing"}
       THEN task' = [task EXCEPT ![t].at = "complain", ![t].deaf = TRUE]
       ELSE End(t)
    /\ UNCHANGED store

(* Mutant: the transaction of a cancelled call stays open. *)
CancelKeepsRow(t) ==
    /\ At(t) # "idle"
    /\ End(t)
    /\ UNCHANGED store

(* The client cancels: a transaction is rolled back, a statement that runs *)
(* may have been committed.                                                *)
Cancel(t) ==
    /\ At(t) # "idle"
    /\ lock' = Unlocked(t)
    /\ \/ End(t) /\ UNCHANGED rows
       \/ /\ At(t) = "running" /\ Op(t) = "delete_record" /\ lock[Id(t)] = NoTask
          /\ rows' = [rows EXCEPT ![Id(t)] = NoRow] /\ End(t)
    /\ UNCHANGED <<kind, points, collection>>

-----------------------------------------------------------------------------

(* A statement under way is answered. *)
Answered(t) == InsertRuns(t) \/ Checked(t) \/ Returned(t)

Next ==
    \E t \in Tasks :
        \/ RequestRecord(t) \/ RequestDocument(t) \/ Announced(t) \/ Composed(t) \/ Acquired(t)
        \/ Fails(t) \/ Answered(t) \/ DeleteRuns(t)
        \/ UpdateRuns(t) \/ Commits(t) \/ RollsBack(t)
        \/ OperationFails(t) \/ CreateCollection(t)
        \/ CreateDocument(t) \/ UpdateDocument(t) \/ DeleteDocument(t)
        \/ Told(t) \/ Refused(t) \/ Cancel(t)

(* Connections are handed out in order of arrival and row locks are queued. *)
(* Nothing makes a client read its notices.                                *)
Fairness ==
    \A t \in Tasks :
        /\ WF_vars(Answered(t))
        /\ SF_vars(Composed(t) \/ Acquired(t) \/ DeleteRuns(t) \/ UpdateRuns(t))

Spec == Init /\ [][Next]_vars /\ Fairness

-----------------------------------------------------------------------------
(* Properties *)

(* A call that is going to report an error has changed nothing, unless an  *)
(* answer was lost or its notice refused after the change, or it deleted   *)
(* record 0.                                                               *)
FailureChangesNothing ==
    \A t \in Tasks :
        At(t) = "complain" /\ task[t].wrote # {} =>
            task[t].deaf \/ (Op(t) = "delete_record" /\ Id(t) = 0)

(* A call that is going to report success has changed the record or the    *)
(* document it was asked for and no other, unless the document carried     *)
(* another id or its id was neither an integer nor a UUID.                 *)
SuccessIsAboutItsTarget ==
    \A t \in Tasks :
        /\ At(t) \in {"done", "returning"} /\ Op(t) \notin {"create_record", "create_collection"}
        /\ task[t].own = NoName /\ Id(t) \notin Free
        => task[t].wrote = {Id(t)}

(* Every call comes to its end, unless some client leaves a notice unread: *)
(* then calls that need its row or its connection may wait with it.        *)
CallsEnd ==
    \A t \in Tasks : At(t) # "idle" ~> At(t) = "idle" \/ \E u \in Tasks : At(u) \in Telling
===============================================================================
