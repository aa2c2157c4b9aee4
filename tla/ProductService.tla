-------------------------- MODULE ProductService --------------------------
(***************************************************************************)
(* POST, PATCH and DELETE of /api/v1/products in product-service and the   *)
(* products table they share.                                              *)
(*                                                                         *)
(* FastAPI runs these handlers in a pool of threads, each with a session   *)
(* of its own at READ COMMITTED.  A handler of PATCH or DELETE loads the   *)
(* row, sets attributes and commits; SQLAlchemy then updates the columns   *)
(* whose value is not the one it loaded, and no others.                    *)
(***************************************************************************)
EXTENDS Naturals, FiniteSets

CONSTANTS
    Requests,       \* requests that change the catalog
    Op,             \* "create", "update" or "delete"
    Malformed,      \* requests that the pydantic schema refuses
    Target,         \* the product of a request; a creation draws a new one
    Sku,            \* the sku of a creation
    Body,           \* the columns a creation or a PATCH names, with values
    Products,       \* product ids
    Seed,           \* the rows at the start, a function on some products
    NULL,           \* an explicit null in a PATCH
    MaxInt,         \* largest value of a PostgreSQL INTEGER
    Faults          \* faults the environment may inject

ASSUME CatalogAssumption ==
    /\ Op \in [Requests -> {"create", "update", "delete"}]
    /\ Target \in [Requests -> Products]
    /\ DOMAIN Seed \subseteq Products
    /\ \A r \in Requests : Op[r] = "create" =>
          /\ Target[r] \notin DOMAIN Seed
          /\ \A q \in Requests \ {r} : Op[q] = "create" => Target[q] # Target[r]
    /\ Malformed \subseteq Requests
    /\ MaxInt \in Nat
    /\ Faults \subseteq {"db", "crash"}

VARIABLES
    pc,         \* where the handler of a request stands
    loaded,     \* the row its session has loaded
    table,      \* products
    reply       \* the HTTP status of the answer

vars == <<pc, loaded, table, reply>>

Working == {"insert", "load", "commit", "refresh"}

Columns == {"price", "stock", "active"}

Absent == [sku |-> "absent"]

IsRow(x) ==
    /\ DOMAIN x = Columns \cup {"sku"}
    /\ x.price \in 1 .. MaxInt /\ x.stock \in 0 .. MaxInt /\ x.active \in BOOLEAN

\* ProductCreate takes a price and a stock, ProductUpdate any columns, each of
\* which it lets be null; a sku in the table stands for a row with that sku.
ASSUME SchemaAssumption ==
    /\ NULL \notin Nat /\ NULL \notin BOOLEAN
    /\ \A r \in Requests \ Malformed :
          /\ Op[r] = "create" => DOMAIN Body[r] = {"price", "stock"}
          /\ Op[r] = "update" => DOMAIN Body[r] \subseteq Columns
          /\ Op[r] \in {"create", "update"} =>
                \A c \in DOMAIN Body[r] :
                    \/ Op[r] = "update" /\ Body[r][c] = NULL
                    \/ c = "price"  /\ Body[r][c] \in Nat \ {0}
                    \/ c = "stock"  /\ Body[r][c] \in Nat
                    \/ c = "active" /\ Body[r][c] \in BOOLEAN
    /\ \A r \in Requests : Sku[r] # "absent"
    /\ \A p \in DOMAIN Seed :
          /\ IsRow(Seed[p])
          /\ Seed[p].sku # "absent"
          /\ \A q \in DOMAIN Seed : Seed[p].sku = Seed[q].sku => p = q

\* The columns hold what their types and NOT NULL admit.
TypeOK ==
    /\ pc    \in [Requests -> Working \cup {"unsent", "done"}]
    /\ reply \in [Requests -> {"none", "lost", "200", "201", "204", "404", "409", "422", "500"}]
    /\ \A r \in Requests : loaded[r] = Absent \/ IsRow(loaded[r])
    /\ \A p \in Products : table[p] = Absent \/ IsRow(table[p])

Init ==
    /\ pc     = [r \in Requests |-> "unsent"]
    /\ loaded = [r \in Requests |-> Absent]
    /\ table  = [p \in Products |-> IF p \in DOMAIN Seed THEN Seed[p] ELSE Absent]
    /\ reply  = [r \in Requests |-> "none"]

-----------------------------------------------------------------------------
At(r, label) == pc[r] = label

GoTo(r, label) == pc' = [pc EXCEPT ![r] = label] /\ UNCHANGED reply

Finish(r, status) ==
    /\ pc'    = [pc EXCEPT ![r] = "done"]
    /\ reply' = [reply EXCEPT ![r] = status]

\* What a request sets: a DELETE hides the product and keeps its row.
Patch(r) == IF Op[r] = "delete" THEN [active |-> FALSE] ELSE Body[r]

Receive(r) ==
    /\ At(r, "unsent")
    /\ IF r \in Malformed
       THEN Finish(r, "422")
       ELSE GoTo(r, IF Op[r] = "create" THEN "insert" ELSE "load")
    /\ UNCHANGED <<loaded, table>>

\* Variant: the columns take numbers of any size.
Fits_AnyNumber(column, value) == value # NULL

\* An INTEGER column refuses a value that does not fit and NOT NULL a null.
Fits(column, value) ==
    /\ value # NULL
    /\ column \in {"price", "stock"} => value <= MaxInt

-----------------------------------------------------------------------------
(***************************************************************************)
(* create_product                                                          *)
(***************************************************************************)
Taken(sku) == \E p \in Products : table[p].sku = sku

\* Variant: sku is not unique.
SkuFree_NotUnique(r) == TRUE

\* The unique constraint on sku.
SkuFree(r) == ~Taken(Sku[r])

NewRow(r) ==
    [c \in Columns \cup {"sku"} |-> CASE c = "sku"    -> Sku[r]
                                      [] c = "active" -> TRUE
                                      [] OTHER        -> Body[r][c]]

InsertFits(r) == \A c \in DOMAIN Body[r] : Fits(c, Body[r][c])

\* One INSERT.  A number out of range is a DataError that nobody catches, a
\* sku in use an IntegrityError that becomes DuplicateSkuError.
Insert(r) ==
    /\ At(r, "insert")
    /\ \/ ~InsertFits(r) /\ Finish(r, "500") /\ UNCHANGED table
       \/ InsertFits(r) /\ ~SkuFree(r) /\ Finish(r, "409") /\ UNCHANGED table
       \/ /\ InsertFits(r) /\ SkuFree(r)
          /\ table' = [table EXCEPT ![Target[r]] = NewRow(r)]
          /\ GoTo(r, "refresh")
    /\ UNCHANGED loaded

-----------------------------------------------------------------------------
(***************************************************************************)
(* update_product and delete_product                                       *)
(***************************************************************************)
Load(r) ==
    /\ At(r, "load")
    /\ IF table[Target[r]] = Absent
       THEN Finish(r, "404") /\ UNCHANGED loaded
       ELSE GoTo(r, "commit") /\ loaded' = [loaded EXCEPT ![r] = table[Target[r]]]
    /\ UNCHANGED table

\* Variant: the UPDATE takes what it can store.
Dirty_SkipsNull(r) ==
    {c \in DOMAIN Patch(r) : Patch(r)[c] # NULL /\ Patch(r)[c] # loaded[r][c]}

\* The columns of the UPDATE: those set to another value than was loaded.
Dirty(r) == {c \in DOMAIN Patch(r) : Patch(r)[c] # loaded[r][c]}

\* Variant: the UPDATE writes every column of the object.
Updated_WholeRow(r) ==
    [c \in Columns \cup {"sku"} |-> IF c \in Dirty(r) THEN Patch(r)[c] ELSE loaded[r][c]]

\* The row after the UPDATE: whatever others wrote meanwhile in the other
\* columns stays.
Updated(r) ==
    [c \in Columns \cup {"sku"} |->
        IF c \in Dirty(r) THEN Patch(r)[c] ELSE table[Target[r]][c]]

UpdateFits(r) == \A c \in Dirty(r) : Fits(c, Patch(r)[c])

\* Variant: DELETE removes the row.
Commit_HardDelete(r) ==
    /\ At(r, "commit")
    /\ IF UpdateFits(r)
       THEN /\ table' = [table EXCEPT ![Target[r]] =
                           IF Op[r] = "delete" THEN Absent ELSE Updated(r)]
            /\ IF Op[r] = "delete" THEN Finish(r, "204") ELSE GoTo(r, "refresh")
       ELSE Finish(r, "500") /\ UNCHANGED table
    /\ UNCHANGED loaded

\* One UPDATE and its COMMIT, or neither.  Nothing here catches the error of
\* a value that a column refuses.
Commit(r) ==
    /\ At(r, "commit")
    /\ IF UpdateFits(r)
       THEN /\ table' = [table EXCEPT ![Target[r]] = Updated(r)]
            /\ IF Op[r] = "delete" THEN Finish(r, "204") ELSE GoTo(r, "refresh")
       ELSE Finish(r, "500") /\ UNCHANGED table
    /\ UNCHANGED loaded

\* The row is read again for the answer, as it is by now.
Refresh(r) ==
    /\ At(r, "refresh")
    /\ loaded' = [loaded EXCEPT ![r] = table[Target[r]]]
    /\ Finish(r, IF Op[r] = "create" THEN "201" ELSE "200")
    /\ UNCHANGED table

-----------------------------------------------------------------------------
(***************************************************************************)
(* Faults.                                                                 *)
(***************************************************************************)

\* The database fails under a handler: FastAPI answers 500.  A commit may
\* have taken effect all the same.
DbFailure(r) ==
    /\ "db" \in Faults
    /\ pc[r] \in Working
    /\ Finish(r, "500")
    /\ \/ UNCHANGED table
       \/ /\ At(r, "insert") /\ InsertFits(r) /\ SkuFree(r)
          /\ table' = [table EXCEPT ![Target[r]] = NewRow(r)]
       \/ /\ At(r, "commit") /\ UpdateFits(r)
          /\ table' = [table EXCEPT ![Target[r]] = Updated(r)]
    /\ UNCHANGED loaded

Crash ==
    /\ "crash" \in Faults
    /\ \E r \in Requests : pc[r] \in Working
    /\ pc'    = [r \in Requests |-> IF pc[r] \in Working THEN "done" ELSE pc[r]]
    /\ reply' = [r \in Requests |-> IF pc[r] \in Working THEN "lost" ELSE reply[r]]
    /\ UNCHANGED <<loaded, table>>

Handler(r) == Insert(r) \/ Load(r) \/ Commit(r) \/ Refresh(r)

Next ==
    \/ \E r \in Requests : Receive(r) \/ Handler(r) \/ DbFailure(r)
    \/ Crash

Spec == Init /\ [][Next]_vars

-----------------------------------------------------------------------------
(***************************************************************************)
(* Promises.                                                               *)
(***************************************************************************)
Exists(p) == table[p] # Absent

\* Two creations of one sku race to the constraint; only one is stored, and
\* the other is told 409 for a product that is really there.
SkusUnique ==
    /\ \A p, q \in Products : Exists(p) /\ Exists(q) /\ table[p].sku = table[q].sku => p = q
    /\ \A r \in Requests : reply[r] = "409" => ~Exists(Target[r]) /\ Taken(Sku[r])

Acknowledged == {"200", "201", "204"}

\* A request that can only be refused whatever the table holds.
Refused(r) == r \in Malformed \/ \E c \in DOMAIN Patch(r) : ~Fits(c, Patch(r)[c])

Writers(p, c) ==
    {r \in Requests : Target[r] = p /\ c \in DOMAIN Patch(r) /\ ~Refused(r)}

\* A change that was acknowledged lasts: while no other request sets that
\* column of the product, requests for its other columns that loaded the row
\* earlier and commit later do not bring the old value back.
AcknowledgedWritesStick ==
    \A r \in Requests : reply[r] \in Acknowledged =>
        \A c \in DOMAIN Patch(r) :
            Writers(Target[r], c) = {r} => table[Target[r]][c] = Patch(r)[c]

\* A PATCH is stored whole or not at all: every value in the table is there
\* since the start or comes from a request that could store all it asked for.
ColumnsHaveAuthors ==
    \A p \in Products : Exists(p) =>
        \A c \in Columns :
            \/ p \in DOMAIN Seed /\ table[p][c] = Seed[p][c]
            \/ c = "active" /\ table[p][c] = TRUE
            \/ \E r \in Writers(p, c) : table[p][c] = Patch(r)[c]

\* product_service.py: a soft delete preserves referential history for
\* orders.  A product an order refers to never goes away or changes its sku.
ProductsStay ==
    [][\A p \in Products : Exists(p) => table'[p] # Absent /\ table'[p].sku = table[p].sku]_vars
=============================================================================
