------------------------------ MODULE SqlStore ------------------------------
(***************************************************************************)
(* The SQL store: writers of several pools and processes over one          *)
(* database.  A write operation, or a whole batch, is one transaction:     *)
(* beginWrite locks the mutation_lock row (PostgreSQL, MySQL) or leaves    *)
(* the exclusion to SQLite; the statements check, write and search for a   *)
(* cycle; commit makes the rows that changed visible; any error rolls back.*)
(* Statements of different transactions interleave.                        *)
(*                                                                         *)
(* The database is external.  What is assumed of it: a commit is atomic;   *)
(* PostgreSQL shows each statement the rows committed before it (READ      *)
(* COMMITTED); MySQL and SQLite show a transaction the rows committed      *)
(* before its first plain read; a row lock has one holder; SQLite lets a   *)
(* transaction write only when nobody else does and nothing was committed  *)
(* since its first read.                                                   *)
(*                                                                         *)
(* The promise is PolicyStore: seen from outside, the tables change as the *)
(* memory store does under its lock.                                       *)
(***************************************************************************)
EXTENDS PolicyData

CONSTANTS Dialects,   \* the databases that the store may be opened on
          Writers,    \* goroutines of any process that change the policy
          Free,       \* nobody holds the lock
          MaxBatch    \* bound: elements in one batch

ASSUME SqlConstantsOK == /\ Dialects \subseteq {"postgres", "mysql", "sqlite"}
                         /\ Free \notin Writers
                         /\ MaxBatch \in Nat

VARIABLES dialect,  \* the database, chosen when the store is opened
          db,       \* the committed rows
          holder,   \* who holds the mutation_lock row, or SQLite's write lock
          tx        \* writer -> its transaction

vars == <<dialect, db, holder, tx>>

\* Each table is the set of its rows; primary keys make rows unique.  A payload
\* row with an empty list or map reads like no row, and is left out.
Tables == [roles            : SUBSET Roles,
           role_permissions : SUBSET (Roles \X Permissions),
           role_parents     : SUBSET (Roles \X Roles),
           role_assignments : SUBSET (Users \X Roles),
           role_rules       : SUBSET (Roles \X (RuleLists \ {NoRules})),
           role_metadata    : SUBSET (Roles \X (MetadataMaps \ {NoMetadata}))]

Empty == [roles |-> {}, role_permissions |-> {}, role_parents |-> {},
          role_assignments |-> {}, role_rules |-> {}, role_metadata |-> {}]

(* The operations.  Invalid roles and rules are refused before a transaction *)
(* begins.                                                                   *)
Ops == [kind : {"AddRole", "UpdateRole"}, role : {role \in RoleSpecs : validRole(role)}]
         \cup [kind : {"DeleteRole"}, name : Roles]
         \cup [kind : {"AssignRole", "UnassignRole"}, user : Users, name : Roles]
         \cup [kind : {"SetRoleRules"}, name : Roles, rules : {r \in RuleLists : validateRules(r)}]
         \cup [kind : {"SetRoleMetadata"}, name : Roles, metadata : MetadataMaps]

NoOp == [kind |-> "none"]

\* The place of an operation's list in applyBatch.
position == [AddRole |-> 1, UpdateRole |-> 2, SetRoleRules |-> 3, SetRoleMetadata |-> 4,
             UnassignRole |-> 5, AssignRole |-> 6, DeleteRole |-> 7]

Transactions ==
    [pc    : {"idle", "begun", "ready", "checked", "written"},
     batch : BOOLEAN,          \* ApplyPolicyBatch, or a single operation
     phase : 1 .. 7,           \* position of the last element of the batch
     size  : 0 .. MaxBatch,    \* elements written
     op    : Ops \cup {NoOp},
     base  : Tables,           \* the committed rows the transaction started from
     view  : Tables]           \* the rows it sees, its own changes included

NoTx == [pc |-> "idle", batch |-> FALSE, phase |-> 1, size |-> 0, op |-> NoOp,
         base |-> Empty, view |-> Empty]

TypeOK == /\ dialect \in Dialects
          /\ db \in Tables
          /\ holder \in Writers \cup {Free}
          /\ tx \in [Writers -> Transactions]

Init == /\ dialect \in Dialects
        /\ db = Empty
        /\ holder = Free
        /\ tx = [w \in Writers |-> NoTx]

-----------------------------------------------------------------------------
(* What the statements see *)

\* The committed rows with the transaction's own inserts and deletes on top.
Overlay(t) ==
    LET mine(table, row) == (row \in t.base[table]) # (row \in t.view[table])
        rows(table) == {row \in UNION {db[table], t.view[table]} :
                           row \in (IF mine(table, row) THEN t.view[table] ELSE db[table])}
    IN [roles            |-> rows("roles"),
        role_permissions |-> rows("role_permissions"),
        role_parents     |-> rows("role_parents"),
        role_assignments |-> rows("role_assignments"),
        role_rules       |-> rows("role_rules"),
        role_metadata    |-> rows("role_metadata")]

\* The transaction as its next statement finds it.
Refreshed(t) == IF dialect = "postgres" THEN [t EXCEPT !.base = db, !.view = Overlay(t)]
                                        ELSE t

\* The first plain read decides what a MySQL or SQLite transaction sees.
FirstRead(t) == IF t.size = 0 THEN [t EXCEPT !.base = db, !.view = db] ELSE Refreshed(t)

parentGraph(v) == [r \in Roles |-> {p \in Roles : <<r, p>> \in v.role_parents}]

-----------------------------------------------------------------------------
(* The operations, as statements on the rows v *)

roleExists(v, name) == name \in v.roles

roleInUse(v, name) == \E u \in Users : <<u, name>> \in v.role_assignments

\* The checks before the first write.
Checks(v, op) ==
    CASE op.kind = "AddRole"    -> ~ roleExists(v, op.role.name)
      [] op.kind = "UpdateRole" -> roleExists(v, op.role.name)
      [] op.kind = "DeleteRole" -> roleExists(v, op.name) /\ ~ roleInUse(v, op.name)
      [] OTHER                  -> roleExists(v, op.name)

InsertRole(v, role) ==
    [v EXCEPT !.roles = @ \cup {role.name},
              !.role_permissions = @ \cup ({role.name} \X role.permissions),
              !.role_parents = @ \cup ({role.name} \X role.parents)]

\* The rows of one role, as the statements WHERE role_name = name find them.
Of(rows, name) == {row \in rows : row[1] = name}

\* Permissions and links are replaced wholesale.
ReplaceRole(v, role) ==
    [v EXCEPT !.role_permissions = (@ \ Of(@, role.name)) \cup ({role.name} \X role.permissions),
              !.role_parents = (@ \ Of(@, role.name)) \cup ({role.name} \X role.parents)]

\* Mutant: the links from the role's children stay.
RemoveRole_NoCascade(v, name) ==
    [v EXCEPT !.role_rules = @ \ Of(@, name),
              !.role_metadata = @ \ Of(@, name),
              !.role_parents = @ \ Of(@, name),
              !.role_permissions = @ \ Of(@, name),
              !.roles = @ \ {name}]

\* The sidecar rows, the links of the role and of its children, its permissions
\* and the role.
RemoveRole(v, name) ==
    [v EXCEPT !.role_rules = @ \ Of(@, name),
              !.role_metadata = @ \ Of(@, name),
              !.role_parents = {row \in @ : name \notin {row[1], row[2]}},
              !.role_permissions = @ \ Of(@, name),
              !.roles = @ \ {name}]

InsertAssignment(v, user, name) ==
    [v EXCEPT !.role_assignments = @ \cup {<<user, name>>}]

RemoveAssignment(v, user, name) ==
    [v EXCEPT !.role_assignments = @ \ {<<user, name>>}]

\* setRoleDetail inserts the payload, or replaces the one that is there.
setRoleDetail(rows, name, payload, empty) ==
    (rows \ Of(rows, name)) \cup ({name} \X ({payload} \ {empty}))

Writes(v, op) ==
    CASE op.kind = "AddRole"         -> InsertRole(v, op.role)
      [] op.kind = "UpdateRole"      -> ReplaceRole(v, op.role)
      [] op.kind = "DeleteRole"      -> RemoveRole(v, op.name)
      [] op.kind = "AssignRole"      -> InsertAssignment(v, op.user, op.name)
      [] op.kind = "UnassignRole"    -> RemoveAssignment(v, op.user, op.name)
      [] op.kind = "SetRoleRules"    ->
            [v EXCEPT !.role_rules = setRoleDetail(@, op.name, op.rules, NoRules)]
      [] op.kind = "SetRoleMetadata" ->
            [v EXCEPT !.role_metadata = setRoleDetail(@, op.name, op.metadata, NoMetadata)]

\* Each parent is looked up while the links are inserted, after the role itself
\* was, so a role that names itself passes here and is left to checkCycles.
ParentsFound(v, op) ==
    op.kind \in {"AddRole", "UpdateRole"} => \A p \in op.role.parents : roleExists(v, p)

\* The recursive query: the role is among its own ancestors.
checkCycles(v, op) ==
    op.kind \in {"AddRole", "UpdateRole"} =>
        op.role.name \notin Ancestors(parentGraph(v), op.role.name)

-----------------------------------------------------------------------------
(* The transaction *)

\* BeginTx, for a single operation or for ApplyPolicyBatch.
Begin(w, batch) ==
    /\ tx[w].pc = "idle"
    /\ tx' = [tx EXCEPT ![w] = [NoTx EXCEPT !.batch = batch,
                                            !.pc = IF dialect = "sqlite" THEN "ready" ELSE "begun"]]
    /\ UNCHANGED <<dialect, db, holder>>

\* Mutant: the row is read without FOR UPDATE.
LockMutations_Plain(w) ==
    /\ tx[w].pc = "begun"
    /\ tx' = [tx EXCEPT ![w].pc = "ready"]
    /\ holder' = w
    /\ UNCHANGED <<dialect, db>>

\* SELECT ... FOR UPDATE on the mutation_lock row.
LockMutations(w) ==
    /\ tx[w].pc = "begun"
    /\ holder = Free
    /\ holder' = w
    /\ tx' = [tx EXCEPT ![w].pc = "ready"]
    /\ UNCHANGED <<dialect, db>>

\* An operation runs its checks: the only one, or the next of a batch, whose
\* lists run in order.
Check(w, op) ==
    LET t == FirstRead(tx[w]) IN
    /\ tx[w].pc = "ready"
    /\ IF t.batch THEN t.size < MaxBatch /\ t.phase <= position[op.kind] ELSE t.size = 0
    /\ MaxBatch > 0
    /\ Checks(t.view, op)
    /\ tx' = [tx EXCEPT ![w] = [t EXCEPT !.pc = "checked", !.op = op]]
    /\ UNCHANGED <<dialect, db, holder>>

\* The first write statement of a SQLite transaction.  With an old snapshot, or
\* against another writer, it fails and the operation rolls back.
Reserve(w) ==
    /\ dialect = "sqlite"
    /\ tx[w].pc = "checked"
    /\ holder = Free /\ tx[w].base = db
    /\ holder' = w
    /\ UNCHANGED <<dialect, db, tx>>

Write(w) ==
    LET t == Refreshed(tx[w])
        v == Writes(t.view, t.op) IN
    /\ tx[w].pc = "checked"
    /\ holder = w
    /\ ParentsFound(v, t.op)
    /\ tx' = [tx EXCEPT ![w] = [t EXCEPT !.pc = "written", !.view = v,
                                         !.phase = position[t.op.kind], !.size = @ + 1]]
    /\ UNCHANGED <<dialect, db, holder>>

\* The search for a cycle, for the operations that have one, ends the operation.
Finish(w) ==
    LET t == Refreshed(tx[w]) IN
    /\ tx[w].pc = "written"
    /\ checkCycles(t.view, t.op)
    /\ tx' = [tx EXCEPT ![w] = [t EXCEPT !.pc = "ready", !.op = NoOp]]
    /\ UNCHANGED <<dialect, db, holder>>

\* The transaction is over and its locks are released.
End(w) == /\ tx' = [tx EXCEPT ![w] = NoTx]
          /\ holder' = IF holder = w THEN Free ELSE holder
          /\ UNCHANGED dialect

\* commitOwned, after the operation or after the last element of the batch.
CommitTx(w) ==
    /\ tx[w].pc = "ready"
    /\ tx[w].batch \/ tx[w].size = 1
    /\ db' = IF tx[w].size = 0 THEN db ELSE Overlay(tx[w])
    /\ End(w)

\* rollbackOwned: a check, a parent, the cycle search or a statement failed, the
\* context is done, or the connection or the process is gone.
Rollback(w) == tx[w].pc # "idle" /\ End(w) /\ UNCHANGED db

Next == \E w \in Writers : \/ \E batch \in BOOLEAN : Begin(w, batch)
                           \/ LockMutations(w)
                           \/ \E op \in Ops : Check(w, op)
                           \/ Reserve(w) \/ Write(w) \/ Finish(w)
                           \/ CommitTx(w) \/ Rollback(w)

Spec == Init /\ [][Next]_vars

-----------------------------------------------------------------------------
(* The tables implement the store *)

\* The rows v as the memory store would hold them.
Payload(rows, name, none) ==
    IF \E row \in rows : row[1] = name THEN (CHOOSE row \in rows : row[1] = name)[2] ELSE none

AsStore(v) ==
    [roles       |-> v.roles,
     permissions |-> [r \in Roles |-> {p \in Permissions : <<r, p>> \in v.role_permissions}],
     parents     |-> parentGraph(v),
     users       |-> [u \in Users |-> [r \in Roles |->
                        IF <<u, r>> \in v.role_assignments THEN 1 ELSE 0]],
     roleUsers   |-> [r \in Roles |-> {u \in Users : <<u, r>> \in v.role_assignments}],
     rules       |-> [r \in Roles |-> Payload(v.role_rules, r, NoRules)],
     metadata    |-> [r \in Roles |-> Payload(v.role_metadata, r, NoMetadata)]]

\* The batch that holds the lock is the batch the memory store would be running,
\* until an element closes a cycle: then it is bound to roll back.
Running(w) == /\ holder = w /\ tx[w].batch
              /\ tx[w].pc = "written" => checkCycles(tx[w].view, tx[w].op)

Batch == IF \E w \in Writers : Running(w)
         THEN LET t == tx[CHOOSE w \in Writers : Running(w)] IN
              [phase |-> t.phase, size |-> t.size,
               work |-> AsStore(IF t.size = 0 THEN db ELSE t.view)]
         ELSE [phase |-> 0, size |-> 0, work |-> NewMemoryStore]

PS == INSTANCE PolicyStore WITH store <- AsStore(db),
          phase <- Batch.phase, work <- Batch.work, size <- Batch.size

\* Seen from outside, every behaviour of the transactions is a behaviour of the
\* memory store: single operations and batches take effect one after the other,
\* each on what the one before it committed, or not at all.  Links checked
\* against rows that another writer is changing, a role deleted while it is
\* being assigned, or a sidecar row written for a role that is gone would each
\* show up as a step the memory store cannot take.
ImplementsPolicyStore == PS!Spec
=============================================================================
