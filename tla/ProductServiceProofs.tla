------------------------- MODULE ProductServiceProofs -------------------------
(***************************************************************************)
(* Proofs about ProductService, for every catalog, every set of requests   *)
(* that the schemas admit and every choice of faults.                      *)
(***************************************************************************)
EXTENDS ProductService, TLAPS

\* A change has been committed by the handler of r, which knows it.
Written(r) == pc[r] = "refresh" \/ reply[r] \in Acknowledged

\* No request but r sets column c of its product.
Alone(r, c) == Writers(Target[r], c) \subseteq {r}

\* What is known of a request from where its handler stands and from its
\* answer.  A creation draws its product when it stores it; what an UPDATE
\* does not write is in the table as it was loaded, unless another request
\* sets that column.
RequestSound(r) ==
    /\ pc[r] \notin {"unsent", "done"} => r \notin Malformed
    /\ pc[r] = "insert" => Op[r] = "create"
    /\ pc[r] \in {"load", "commit"} => Op[r] # "create"
    /\ Op[r] = "create" /\ (pc[r] \in {"unsent", "insert"} \/ reply[r] = "409") => ~Exists(Target[r])
    /\ reply[r] = "409" => Op[r] = "create" /\ Taken(Sku[r])
    /\ pc[r] # "done" => reply[r] = "none"
    /\ pc[r] = "commit" =>
          /\ Exists(Target[r])
          /\ IsRow(loaded[r])
          /\ \A c \in Columns : Alone(r, c) => loaded[r][c] = table[Target[r]][c]
    /\ Written(r) =>
          /\ r \notin Malformed
          /\ Exists(Target[r])
          /\ \A c \in DOMAIN Patch(r) : Alone(r, c) => table[Target[r]][c] = Patch(r)[c]

RowsDiffer ==
    \A p, q \in Products : Exists(p) /\ Exists(q) /\ table[p].sku = table[q].sku => p = q

\* TypeOK leaves open where the two tables are defined; this does not.
Shape ==
    /\ table = [p \in Products |-> table[p]]
    /\ loaded = [r \in Requests |-> loaded[r]]

IInv ==
    /\ TypeOK
    /\ Shape
    /\ RowsDiffer
    /\ \A p \in Products : Exists(p) => table[p].sku # "absent"
    /\ ColumnsHaveAuthors
    /\ \A r \in Requests : RequestSound(r)

-----------------------------------------------------------------------------
(***************************************************************************)
(* Rows and what requests do to them.                                      *)
(***************************************************************************)
LEMMA RowsExist == \A x : IsRow(x) => x # Absent
<1>1. DOMAIN Absent = {"sku"}
  BY DEF Absent
<1> QED
  BY <1>1 DEF IsRow, Columns

LEMMA SkuOfNobody == Absent.sku = "absent"
BY DEF Absent

LEMMA TargetTyped == \A r \in Requests : Target[r] \in Products
BY CatalogAssumption

\* What a request sets, by what kind of request it is.
LEMMA PatchTyped ==
    ASSUME NEW r \in Requests, r \notin Malformed, NEW c \in DOMAIN Patch(r)
    PROVE  /\ c \in Columns
           /\ \/ Op[r] = "update" /\ Patch(r)[c] = NULL
              \/ c = "price"  /\ Patch(r)[c] \in Nat \ {0}
              \/ c = "stock"  /\ Patch(r)[c] \in Nat
              \/ c = "active" /\ Patch(r)[c] \in BOOLEAN
           /\ Op[r] = "create" => c # "active"
<1>1. CASE Op[r] = "delete"
  <2>1. Patch(r) = [active |-> FALSE]
    BY <1>1 DEF Patch
  <2>2. c = "active" /\ Patch(r)[c] = FALSE
    BY <2>1
  <2> QED
    BY <1>1, <2>2 DEF Columns
<1>2. CASE Op[r] # "delete"
  <2>1. Patch(r) = Body[r] /\ Op[r] \in {"create", "update"}
    BY <1>2, CatalogAssumption DEF Patch
  <2> QED
    BY <2>1, SchemaAssumption DEF Columns
<1> QED
  BY <1>1, <1>2

\* A value that fits its column is one the column can hold.
LEMMA FittingValues ==
    ASSUME NEW r \in Requests, r \notin Malformed, NEW c \in DOMAIN Patch(r),
           Fits(c, Patch(r)[c])
    PROVE  /\ c = "price"  => Patch(r)[c] \in 1 .. MaxInt
           /\ c = "stock"  => Patch(r)[c] \in 0 .. MaxInt
           /\ c = "active" => Patch(r)[c] \in BOOLEAN
BY PatchTyped, CatalogAssumption DEF Fits

LEMMA NewRowTyped ==
    ASSUME NEW r \in Requests, r \notin Malformed, Op[r] = "create", InsertFits(r)
    PROVE  /\ IsRow(NewRow(r))
           /\ NewRow(r).sku = Sku[r]
           /\ NewRow(r).active = TRUE
           /\ \A c \in {"price", "stock"} : NewRow(r)[c] = Patch(r)[c]
           /\ DOMAIN Patch(r) = {"price", "stock"}
<1>1. Patch(r) = Body[r] /\ DOMAIN Body[r] = {"price", "stock"}
  BY SchemaAssumption DEF Patch
<1>2. /\ NewRow(r).sku = Sku[r] /\ NewRow(r).active = TRUE
      /\ NewRow(r).price = Body[r].price /\ NewRow(r).stock = Body[r].stock
      /\ DOMAIN NewRow(r) = Columns \cup {"sku"}
  BY DEF NewRow, Columns
<1>3. Body[r].price \in 1 .. MaxInt /\ Body[r].stock \in 0 .. MaxInt
  BY <1>1, FittingValues DEF InsertFits
<1> QED
  BY <1>1, <1>2, <1>3 DEF IsRow

\* An UPDATE writes the columns that differ from what was loaded and leaves
\* the others.
LEMMA UpdatedFacts ==
    ASSUME IInv, NEW r \in Requests, pc[r] = "commit", UpdateFits(r)
    PROVE  /\ IsRow(Updated(r))
           /\ Updated(r).sku = table[Target[r]].sku
           /\ \A c \in Columns :
                 Updated(r)[c] = IF c \in Dirty(r) THEN Patch(r)[c] ELSE table[Target[r]][c]
<1>1. r \notin Malformed /\ Exists(Target[r])
  BY DEF IInv, RequestSound
<1>2. IsRow(table[Target[r]])
  BY <1>1, TargetTyped DEF IInv, TypeOK, Exists
<1>3. \A c \in Dirty(r) : c \in DOMAIN Patch(r) /\ c \in Columns /\ Fits(c, Patch(r)[c])
  BY <1>1, PatchTyped DEF Dirty, UpdateFits
<1>4. /\ DOMAIN Updated(r) = Columns \cup {"sku"}
      /\ \A c \in Columns \cup {"sku"} :
            Updated(r)[c] = IF c \in Dirty(r) THEN Patch(r)[c] ELSE table[Target[r]][c]
  BY DEF Updated
<1>5. Updated(r).sku = table[Target[r]].sku
  BY <1>3, <1>4 DEF Columns
<1>6. Updated(r).price \in 1 .. MaxInt /\ Updated(r).stock \in 0 .. MaxInt /\ Updated(r).active \in BOOLEAN
  <2>1. Updated(r).price \in 1 .. MaxInt
    BY <1>1, <1>2, <1>3, <1>4, FittingValues DEF IsRow, Columns
  <2>2. Updated(r).stock \in 0 .. MaxInt
    BY <1>1, <1>2, <1>3, <1>4, FittingValues DEF IsRow, Columns
  <2>3. Updated(r).active \in BOOLEAN
    <3>1. CASE "active" \in Dirty(r)
      BY <1>1, <1>3, <1>4, <3>1, FittingValues DEF Columns
    <3>2. CASE "active" \notin Dirty(r)
      BY <1>2, <1>4, <3>2 DEF IsRow, Columns
    <3> QED
      BY <3>1, <3>2
  <2> QED
    BY <2>1, <2>2, <2>3
<1> QED
  BY <1>4, <1>5, <1>6 DEF IsRow

\* A request whose UPDATE is accepted could store all it asked for: what it
\* did not have to write was in the row it loaded.
LEMMA UpdatesAreWhole ==
    ASSUME IInv, NEW r \in Requests, pc[r] = "commit", UpdateFits(r)
    PROVE  ~Refused(r)
<1>1. r \notin Malformed /\ IsRow(loaded[r])
  BY DEF IInv, RequestSound
<1> SUFFICES ASSUME NEW c \in DOMAIN Patch(r)
             PROVE  Fits(c, Patch(r)[c])
  BY <1>1 DEF Refused
<1>2. CASE c \in Dirty(r)
  BY <1>2 DEF UpdateFits
<1>3. CASE c \notin Dirty(r)
  <2>1. Patch(r)[c] = loaded[r][c] /\ c \in Columns
    BY <1>1, <1>3, PatchTyped DEF Dirty
  <2>2. CASE c = "active"
    BY <1>1, <2>1, <2>2, SchemaAssumption DEF IsRow, Fits
  <2>3. CASE c \in {"price", "stock"}
    BY <1>1, <2>1, <2>3, SchemaAssumption, CatalogAssumption DEF IsRow, Fits
  <2> QED
    BY <2>1, <2>2, <2>3 DEF Columns
<1> QED
  BY <1>2, <1>3

-----------------------------------------------------------------------------
(***************************************************************************)
(* The ways the table changes.                                             *)
(***************************************************************************)
Inserts(r) ==
    /\ pc[r] = "insert"
    /\ InsertFits(r)
    /\ SkuFree(r)
    /\ table' = [table EXCEPT ![Target[r]] = NewRow(r)]

Updates(r) ==
    /\ pc[r] = "commit"
    /\ UpdateFits(r)
    /\ table' = [table EXCEPT ![Target[r]] = Updated(r)]

\* What the change of request r leaves as it was: no row goes away or changes
\* its sku, a column changes only if r sets it, and a new row is the product
\* that r creates.
TableMove(r) ==
    /\ \A p \in Products : Exists(p) => table'[p] # Absent /\ table'[p].sku = table[p].sku
    /\ \A p \in Products : \A c \in Columns :
          Exists(p) /\ table'[p][c] # table[p][c] => r \in Writers(p, c)
    /\ \A p \in Products : table'[p] # Absent /\ ~Exists(p) => Op[r] = "create" /\ p = Target[r]

\* The part of the invariant that is about the table alone.
TableSound ==
    /\ table = [p \in Products |-> table[p]]
    /\ \A p \in Products : Exists(p) => IsRow(table[p]) /\ table[p].sku # "absent"
    /\ RowsDiffer
    /\ ColumnsHaveAuthors

\* Whether requests can be stored, and who sets what, never changes.
LEMMA WritersStay ==
    /\ \A p, c : Writers(p, c)' = Writers(p, c)
    /\ \A r, c : Alone(r, c)' = Alone(r, c)
    /\ \A r : Patch(r)' = Patch(r)
BY DEF Writers, Alone, Refused, Patch, Fits

\* A creation that is stored: its product and its sku are new.
LEMMA InsertsMove ==
    ASSUME IInv, NEW r \in Requests, Inserts(r)
    PROVE  TableMove(r) /\ TableSound'
<1> DEFINE t == Target[r]
<1>1. /\ r \notin Malformed /\ Op[r] = "create" /\ ~Exists(t) /\ t \in Products
  BY TargetTyped DEF IInv, RequestSound, Inserts
<1>2. /\ IsRow(NewRow(r)) /\ NewRow(r).sku = Sku[r] /\ NewRow(r).active = TRUE
      /\ \A c \in {"price", "stock"} : NewRow(r)[c] = Patch(r)[c]
      /\ DOMAIN Patch(r) = {"price", "stock"}
  BY <1>1, NewRowTyped DEF Inserts
<1>3. /\ table' = [p \in Products |-> IF p = t THEN NewRow(r) ELSE table[p]]
      /\ \A p \in Products : table'[p] = IF p = t THEN NewRow(r) ELSE table[p]
  BY <1>1 DEF IInv, Shape, Inserts
<1>4. NewRow(r) # Absent
  BY <1>2, RowsExist
<1>5. TableMove(r)
  BY <1>1, <1>3, <1>4 DEF TableMove, Exists
<1>6. \A p \in Products : table'[p] # Absent => IsRow(table'[p]) /\ table'[p].sku # "absent"
  BY <1>2, <1>3, SchemaAssumption DEF IInv, TypeOK, Exists
<1>7. RowsDiffer'
  <2>1. \A p \in Products : table[p].sku # Sku[r]
    BY DEF Inserts, SkuFree, Taken
  <2> QED
    BY <1>2, <1>3, <2>1 DEF IInv, RowsDiffer, Exists
<1>8. ColumnsHaveAuthors'
  <2> SUFFICES ASSUME NEW p \in Products, table'[p] # Absent, NEW c \in Columns
               PROVE  \/ p \in DOMAIN Seed /\ table'[p][c] = Seed[p][c]
                      \/ c = "active" /\ table'[p][c] = TRUE
                      \/ \E s \in Writers(p, c) : table'[p][c] = Patch(s)[c]
    BY WritersStay DEF ColumnsHaveAuthors, Exists
  <2>1. CASE p # t
    BY <1>3, <2>1 DEF IInv, ColumnsHaveAuthors, Exists
  <2>2. CASE p = t /\ c = "active"
    BY <1>2, <1>3, <2>2
  <2>3. CASE p = t /\ c \in {"price", "stock"}
    <3>1. ~Refused(r)
      BY <1>1, <1>2 DEF Inserts, InsertFits, Refused, Patch
    <3>2. r \in Writers(p, c)
      BY <1>2, <2>3, <3>1 DEF Writers
    <3> QED
      BY <1>2, <1>3, <2>3, <3>2
  <2> QED
    BY <2>1, <2>2, <2>3 DEF Columns
<1> QED
  BY <1>3, <1>5, <1>6, <1>7, <1>8 DEF TableSound, Exists

\* A change that is stored: one row, and only columns that the request sets.
LEMMA UpdatesMove ==
    ASSUME IInv, NEW r \in Requests, Updates(r)
    PROVE  TableMove(r) /\ TableSound'
<1> DEFINE t == Target[r]
<1>1. Exists(t) /\ t \in Products /\ ~Refused(r) /\ r \notin Malformed
  BY TargetTyped, UpdatesAreWhole DEF IInv, RequestSound, Updates
<1>2. /\ IsRow(Updated(r)) /\ Updated(r).sku = table[t].sku
      /\ \A c \in Columns : Updated(r)[c] = IF c \in Dirty(r) THEN Patch(r)[c] ELSE table[t][c]
  BY UpdatedFacts DEF Updates
<1>3. /\ table' = [p \in Products |-> IF p = t THEN Updated(r) ELSE table[p]]
      /\ \A p \in Products : table'[p] = IF p = t THEN Updated(r) ELSE table[p]
  BY <1>1 DEF IInv, Shape, Updates
<1>4. Updated(r) # Absent
  BY <1>2, RowsExist
<1>5. \A c \in Dirty(r) : r \in Writers(t, c)
  BY <1>1 DEF Writers, Dirty
<1>6. TableMove(r)
  BY <1>1, <1>2, <1>3, <1>4, <1>5 DEF TableMove, Exists
<1>7. \A p \in Products : table'[p] # Absent => IsRow(table'[p]) /\ table'[p].sku # "absent"
  BY <1>1, <1>2, <1>3 DEF IInv, TypeOK, Exists
<1>8. RowsDiffer'
  BY <1>1, <1>2, <1>3 DEF IInv, RowsDiffer, Exists
<1>9. ColumnsHaveAuthors'
  <2> SUFFICES ASSUME NEW p \in Products, table'[p] # Absent, NEW c \in Columns
               PROVE  \/ p \in DOMAIN Seed /\ table'[p][c] = Seed[p][c]
                      \/ c = "active" /\ table'[p][c] = TRUE
                      \/ \E s \in Writers(p, c) : table'[p][c] = Patch(s)[c]
    BY WritersStay DEF ColumnsHaveAuthors, Exists
  <2>1. CASE p = t /\ c \in Dirty(r)
    BY <1>2, <1>3, <1>5, <2>1
  <2>2. CASE ~(p = t /\ c \in Dirty(r))
    <3>1. table'[p][c] = table[p][c] /\ Exists(p)
      BY <1>1, <1>2, <1>3, <2>2 DEF Exists
    <3> QED
      BY <3>1 DEF IInv, ColumnsHaveAuthors
  <2> QED
    BY <2>1, <2>2
<1> QED
  BY <1>3, <1>6, <1>7, <1>8, <1>9 DEF TableSound, Exists

LEMMA TableStays ==
    ASSUME IInv, NEW r \in Requests, UNCHANGED table
    PROVE  TableMove(r) /\ TableSound'
<1>1. TableSound
  BY DEF IInv, Shape, TypeOK, TableSound, Exists
<1>2. ColumnsHaveAuthors'
  BY WritersStay DEF IInv, ColumnsHaveAuthors, Exists
<1> QED
  BY <1>1, <1>2 DEF TableMove, TableSound, Exists, RowsDiffer

-----------------------------------------------------------------------------
(***************************************************************************)
(* The inductive step.                                                     *)
(***************************************************************************)

\* What the change of one request leaves true of every other.
LEMMA OthersSound ==
    ASSUME IInv, NEW r \in Requests, TableMove(r), NEW s \in Requests \ {r},
           pc'[s] = pc[s], loaded'[s] = loaded[s], reply'[s] = reply[s]
    PROVE  RequestSound(s)'
<1> DEFINE t == Target[s]
<1>1. RequestSound(s) /\ t \in Products
  BY TargetTyped DEF IInv
<1>2. Exists(t) => table'[t] # Absent
  BY <1>1 DEF TableMove
<1>3. Op[s] = "create" /\ ~Exists(t) => table'[t] = Absent
  BY <1>1, CatalogAssumption DEF TableMove
<1>4. Taken(Sku[s]) => Taken(Sku[s])'
  <2> SUFFICES ASSUME NEW p \in Products, table[p].sku = Sku[s]
               PROVE  table'[p].sku = Sku[s]
    BY DEF Taken
  <2>1. Exists(p)
    BY SkuOfNobody, SchemaAssumption DEF Exists
  <2> QED
    BY <2>1 DEF TableMove
<1>5. \A c \in Columns : Exists(t) /\ Alone(s, c) => table'[t][c] = table[t][c]
  BY <1>1 DEF TableMove, Alone
<1>6. s \notin Malformed => DOMAIN Patch(s) \subseteq Columns
  BY PatchTyped
<1> QED
  BY <1>1, <1>2, <1>3, <1>4, <1>5, <1>6, WritersStay DEF RequestSound, Written, Exists

\* The pieces of the invariant, put together after a step of one request.
LEMMA Together ==
    ASSUME IInv, NEW r \in Requests, NEW label, NEW status, NEW l,
           TableMove(r), TableSound',
           pc' = [pc EXCEPT ![r] = label],
           reply' = [reply EXCEPT ![r] = status],
           loaded' = [loaded EXCEPT ![r] = l],
           label \in Working \cup {"done"},
           status \in {"none", "200", "201", "204", "404", "409", "422", "500"},
           l = Absent \/ IsRow(l),
           RequestSound(r)'
    PROVE  IInv'
<1>1. /\ pc'[r] = label /\ reply'[r] = status /\ loaded'[r] = l
      /\ loaded' = [q \in Requests |-> loaded'[q]]
      /\ \A s \in Requests \ {r} : pc'[s] = pc[s] /\ reply'[s] = reply[s] /\ loaded'[s] = loaded[s]
  BY DEF IInv, TypeOK, Shape
<1>2. TypeOK'
  <2>1. /\ pc' \in [Requests -> Working \cup {"unsent", "done"}]
        /\ reply' \in [Requests -> {"none", "lost", "200", "201", "204", "404", "409", "422", "500"}]
    BY DEF IInv, TypeOK
  <2>2. \A q \in Requests : loaded'[q] = Absent \/ IsRow(loaded'[q])
    BY <1>1 DEF IInv, TypeOK
  <2>3. \A p \in Products : table'[p] = Absent \/ IsRow(table'[p])
    BY DEF TableSound, Exists
  <2> QED
    BY <2>1, <2>2, <2>3 DEF TypeOK
<1>3. \A s \in Requests : RequestSound(s)'
  BY <1>1, OthersSound
<1> QED
  BY <1>1, <1>2, <1>3 DEF IInv, Shape, TableSound

\* No change of pc, reply or what is loaded.
LEMMA Unchanged ==
    ASSUME IInv, NEW r \in Requests
    PROVE  /\ pc = [pc EXCEPT ![r] = pc[r]]
           /\ reply = [reply EXCEPT ![r] = reply[r]]
           /\ loaded = [loaded EXCEPT ![r] = loaded[r]]
           /\ loaded[r] = Absent \/ IsRow(loaded[r])
<1>1. loaded = [loaded EXCEPT ![r] = loaded[r]]
  BY DEF IInv, Shape
<1> QED
  BY <1>1 DEF IInv, TypeOK

LEMMA ReceiveStep ==
    ASSUME IInv, NEW r \in Requests, Receive(r)
    PROVE  IInv'
<1>1. /\ pc[r] = "unsent" /\ reply[r] = "none" /\ RequestSound(r)
      /\ TableMove(r) /\ TableSound'
      /\ UNCHANGED <<loaded, table>>
  BY TableStays DEF IInv, RequestSound, Receive, At
<1>2. CASE r \in Malformed
  <2>1. /\ pc' = [pc EXCEPT ![r] = "done"]
        /\ reply' = [reply EXCEPT ![r] = "422"]
        /\ loaded' = [loaded EXCEPT ![r] = loaded[r]]
    BY <1>1, <1>2, Unchanged DEF Receive, Finish
  <2>2. pc'[r] = "done" /\ reply'[r] = "422"
    BY <2>1 DEF IInv, TypeOK
  <2>3. RequestSound(r)'
    BY <1>1, <2>2 DEF RequestSound, Written, Acknowledged, Exists
  <2> QED
    BY <1>1, <2>1, <2>3, Together, Unchanged
<1>3. CASE r \notin Malformed
  <2> DEFINE label == IF Op[r] = "create" THEN "insert" ELSE "load"
  <2>1. /\ pc' = [pc EXCEPT ![r] = label]
        /\ reply' = [reply EXCEPT ![r] = "none"]
        /\ loaded' = [loaded EXCEPT ![r] = loaded[r]]
    BY <1>1, <1>3, Unchanged DEF Receive, GoTo
  <2>2. pc'[r] = label /\ reply'[r] = "none"
    BY <2>1 DEF IInv, TypeOK
  <2>3. RequestSound(r)'
    BY <1>1, <1>3, <2>2 DEF RequestSound, Written, Acknowledged, Exists
  <2> QED
    BY <1>1, <2>1, <2>3, Together, Unchanged DEF Working
<1> QED
  BY <1>2, <1>3

\* A handler that ends in an error has nothing to answer for but its 409.
LEMMA ErrorStep ==
    ASSUME IInv, NEW r \in Requests, pc[r] \in Working,
           NEW status \in {"404", "409", "500"}, Finish(r, status),
           status = "409" => pc[r] = "insert" /\ ~SkuFree(r) /\ UNCHANGED table,
           UNCHANGED table \/ Inserts(r) \/ Updates(r),
           UNCHANGED loaded
    PROVE  IInv'
<1>1. TableMove(r) /\ TableSound' /\ RequestSound(r)
  BY TableStays, InsertsMove, UpdatesMove DEF IInv
<1>2. /\ pc' = [pc EXCEPT ![r] = "done"]
      /\ reply' = [reply EXCEPT ![r] = status]
      /\ loaded' = [loaded EXCEPT ![r] = loaded[r]]
  BY Unchanged DEF Finish
<1>3. pc'[r] = "done" /\ reply'[r] = status
  BY <1>2 DEF IInv, TypeOK
<1>4. RequestSound(r)'
  <2>1. CASE status = "409"
    BY <1>1, <1>3, <2>1 DEF RequestSound, Written, Acknowledged, Exists, SkuFree, Taken
  <2>2. CASE status # "409"
    BY <1>3, <2>2 DEF RequestSound, Written, Acknowledged
  <2> QED
    BY <2>1, <2>2
<1> QED
  BY <1>1, <1>2, <1>4, Together, Unchanged

\* What a request has committed stands, before its answer and after.
LEMMA WrittenStep ==
    ASSUME IInv, NEW r \in Requests, Inserts(r) \/ Updates(r),
           NEW label, NEW status,
           \/ label = "refresh" /\ status = "none"
           \/ label = "done" /\ status = "204",
           pc' = [pc EXCEPT ![r] = label],
           reply' = [reply EXCEPT ![r] = status],
           UNCHANGED loaded
    PROVE  IInv'
<1> DEFINE t == Target[r]
<1>1. TableMove(r) /\ TableSound' /\ RequestSound(r)
  BY InsertsMove, UpdatesMove DEF IInv
<1>2. r \notin Malformed /\ t \in Products
  BY <1>1, TargetTyped DEF RequestSound, Inserts, Updates
<1>3. /\ table'[t] # Absent
      /\ \A c \in DOMAIN Patch(r) : Alone(r, c) => table'[t][c] = Patch(r)[c]
  <2>1. CASE Inserts(r)
    <3>1. Op[r] = "create" /\ InsertFits(r)
      BY <1>1, <2>1 DEF RequestSound, Inserts
    <3>2. IsRow(NewRow(r)) /\ \A c \in DOMAIN Patch(r) : NewRow(r)[c] = Patch(r)[c]
      BY <1>2, <3>1, NewRowTyped
    <3>3. table'[t] = NewRow(r)
      BY <1>2, <2>1 DEF IInv, Shape, Inserts
    <3> QED
      BY <3>2, <3>3, RowsExist
  <2>2. CASE Updates(r)
    <3>1. pc[r] = "commit" /\ UpdateFits(r)
      BY <2>2 DEF Updates
    <3>2. table'[t] = Updated(r)
      BY <1>2, <2>2 DEF IInv, Shape, Updates
    <3>3. IsRow(Updated(r)) /\ \A c \in Columns :
             Updated(r)[c] = IF c \in Dirty(r) THEN Patch(r)[c] ELSE table[t][c]
      BY <3>1, UpdatedFacts
    <3>4. ASSUME NEW c \in DOMAIN Patch(r), Alone(r, c)
          PROVE  Updated(r)[c] = Patch(r)[c]
      <4>1. c \in Columns
        BY <1>2, PatchTyped
      <4>2. c \notin Dirty(r) => loaded[r][c] = Patch(r)[c]
        BY DEF Dirty
      <4>3. loaded[r][c] = table[t][c]
        BY <1>1, <3>1, <3>4, <4>1 DEF RequestSound
      <4> QED
        BY <3>3, <4>1, <4>2, <4>3
    <3> QED
      BY <3>2, <3>3, <3>4, RowsExist
  <2> QED
    BY <2>1, <2>2
<1>4. pc'[r] = label /\ reply'[r] = status
  BY DEF IInv, TypeOK
<1>5. RequestSound(r)'
  BY <1>2, <1>3, <1>4, WritersStay DEF RequestSound, Written, Acknowledged, Exists
<1>6. loaded' = [loaded EXCEPT ![r] = loaded[r]] /\ label \in Working \cup {"done"}
  BY Unchanged DEF Working
<1> QED
  BY <1>1, <1>5, <1>6, Together, Unchanged

\* The row is loaded, before the change or for the answer.
LEMMA ReadStep ==
    ASSUME IInv, NEW r \in Requests, Load(r) \/ Refresh(r)
    PROVE  IInv'
<1> DEFINE t == Target[r]
<1>1. /\ TableMove(r) /\ TableSound' /\ RequestSound(r)
      /\ table[t] = Absent \/ IsRow(table[t])
      /\ UNCHANGED table
  BY TableStays, TargetTyped DEF IInv, TypeOK, Load, Refresh
<1>2. CASE Load(r) /\ table[t] = Absent
  BY <1>2, ErrorStep DEF Load, At, Working
<1>3. CASE Load(r) /\ table[t] # Absent
  <2>1. /\ pc[r] = "load" /\ reply[r] = "none"
        /\ pc' = [pc EXCEPT ![r] = "commit"]
        /\ reply' = [reply EXCEPT ![r] = "none"]
        /\ loaded' = [loaded EXCEPT ![r] = table[t]]
    BY <1>1, <1>3, Unchanged DEF Load, At, GoTo, RequestSound
  <2>2. pc'[r] = "commit" /\ reply'[r] = "none" /\ loaded'[r] = table[t]
    BY <2>1 DEF IInv, TypeOK, Shape
  <2>3. RequestSound(r)'
    BY <1>1, <1>3, <2>1, <2>2, WritersStay DEF RequestSound, Written, Acknowledged, Exists
  <2> QED
    BY <1>1, <2>1, <2>3, Together DEF Working
<1>4. CASE Refresh(r)
  <2> DEFINE status == IF Op[r] = "create" THEN "201" ELSE "200"
  <2>1. /\ pc[r] = "refresh"
        /\ pc' = [pc EXCEPT ![r] = "done"]
        /\ reply' = [reply EXCEPT ![r] = status]
        /\ loaded' = [loaded EXCEPT ![r] = table[t]]
    BY <1>4 DEF Refresh, At, Finish
  <2>2. pc'[r] = "done" /\ reply'[r] = status
    BY <2>1 DEF IInv, TypeOK
  <2>3. RequestSound(r)'
    BY <1>1, <2>1, <2>2, WritersStay DEF RequestSound, Written, Acknowledged, Exists
  <2> QED
    BY <1>1, <2>1, <2>3, Together
<1> QED
  BY <1>2, <1>3, <1>4

LEMMA HandlerStep ==
    ASSUME IInv, NEW r \in Requests, Handler(r) \/ DbFailure(r)
    PROVE  IInv'
<1>1. RequestSound(r)
  BY DEF IInv
<1>2. CASE Insert(r)
  <2>1. pc[r] = "insert" /\ UNCHANGED loaded /\ pc[r] \in Working /\ reply[r] = "none"
    BY <1>1, <1>2 DEF Insert, At, Working, RequestSound
  <2>2. CASE Finish(r, "500") /\ UNCHANGED table
    BY <2>1, <2>2, ErrorStep
  <2>3. CASE Finish(r, "409") /\ ~SkuFree(r) /\ UNCHANGED table
    BY <2>1, <2>3, ErrorStep
  <2>4. CASE Inserts(r) /\ GoTo(r, "refresh")
    BY <2>1, <2>4, Unchanged, WrittenStep DEF GoTo
  <2> QED
    BY <1>2, <2>1, <2>2, <2>3, <2>4 DEF Insert, Inserts
<1>3. CASE Commit(r)
  <2>1. pc[r] = "commit" /\ UNCHANGED loaded /\ pc[r] \in Working /\ reply[r] = "none"
    BY <1>1, <1>3 DEF Commit, At, Working, RequestSound
  <2>2. CASE Finish(r, "500") /\ UNCHANGED table
    BY <2>1, <2>2, ErrorStep
  <2>3. CASE Updates(r) /\ Finish(r, "204")
    BY <2>1, <2>3, WrittenStep DEF Finish
  <2>4. CASE Updates(r) /\ GoTo(r, "refresh")
    BY <2>1, <2>4, Unchanged, WrittenStep DEF GoTo
  <2> QED
    BY <1>3, <2>1, <2>2, <2>3, <2>4 DEF Commit, Updates
<1>4. CASE DbFailure(r)
  <2>1. UNCHANGED table \/ Inserts(r) \/ Updates(r)
    BY <1>4 DEF DbFailure, Inserts, Updates, At
  <2> QED
    BY <1>4, <2>1, ErrorStep DEF DbFailure
<1> QED
  BY <1>2, <1>3, <1>4, ReadStep DEF Handler

\* A crash ends handlers and touches no row.
LEMMA CrashStep == IInv /\ (Crash \/ UNCHANGED vars) => IInv'
<1> SUFFICES ASSUME IInv, Crash \/ UNCHANGED vars
             PROVE  IInv'
  OBVIOUS
<1>1. UNCHANGED <<loaded, table>>
  BY DEF Crash, vars
<1>2. ASSUME NEW s \in Requests
      PROVE  \/ pc'[s] = pc[s] /\ reply'[s] = reply[s]
             \/ pc[s] # "unsent" /\ pc'[s] = "done" /\ reply'[s] = "lost"
  BY DEF Crash, vars, Working
<1>3. ASSUME NEW s \in Requests
      PROVE  RequestSound(s)'
  <2>1. RequestSound(s)
    BY DEF IInv
  <2> QED
    BY <1>1, <1>2, <2>1, WritersStay DEF RequestSound, Written, Acknowledged, Exists, Taken
<1>4. TypeOK'
  BY <1>1 DEF IInv, TypeOK, Crash, vars
<1>5. ColumnsHaveAuthors'
  BY <1>1, WritersStay DEF IInv, ColumnsHaveAuthors, Exists
<1> QED
  BY <1>1, <1>3, <1>4, <1>5 DEF IInv, Shape, RowsDiffer, Exists

LEMMA StepIInv == IInv /\ [Next]_vars => IInv'
BY ReceiveStep, HandlerStep, CrashStep DEF Next

-----------------------------------------------------------------------------
(***************************************************************************)
(* The theorems.                                                           *)
(***************************************************************************)
LEMMA InitIInv == Init => IInv
<1> SUFFICES ASSUME Init
             PROVE  IInv
  OBVIOUS
<1>1. \A p \in Products : table[p] = IF p \in DOMAIN Seed THEN Seed[p] ELSE Absent
  BY DEF Init
<1>2. \A p \in Products : Exists(p) <=> p \in DOMAIN Seed
  BY <1>1, SchemaAssumption, RowsExist DEF Exists
<1>3. TypeOK
  BY <1>1, SchemaAssumption DEF Init, TypeOK
<1>4. Shape
  BY DEF Init, Shape
<1>5. RowsDiffer /\ \A p \in Products : Exists(p) => table[p].sku # "absent"
  BY <1>1, <1>2, SchemaAssumption DEF RowsDiffer
<1>6. ColumnsHaveAuthors
  BY <1>1, <1>2 DEF ColumnsHaveAuthors
<1>7. ASSUME NEW r \in Requests
      PROVE  RequestSound(r)
  <2>1. pc[r] = "unsent" /\ reply[r] = "none"
    BY DEF Init
  <2>2. Op[r] = "create" => ~Exists(Target[r])
    BY <1>2, TargetTyped, CatalogAssumption
  <2> QED
    BY <2>1, <2>2 DEF RequestSound, Written, Acknowledged
<1> QED
  BY <1>3, <1>4, <1>5, <1>6, <1>7 DEF IInv

LEMMA Invariant == Spec => []IInv
BY InitIInv, StepIInv, PTL DEF Spec

\* Every row holds what its columns admit, whatever nulls and numbers out of
\* range were asked for.
THEOREM TypeCorrect == Spec => []TypeOK
<1>1. IInv => TypeOK
  BY DEF IInv
<1> QED
  BY <1>1, Invariant, PTL

\* Creations that race for a sku store one product, and 409 is told only of
\* a sku in use, to a request that stored nothing.
THEOREM SkusStayUnique == Spec => []SkusUnique
<1>1. IInv => SkusUnique
  BY DEF IInv, RowsDiffer, RequestSound, SkusUnique
<1> QED
  BY <1>1, Invariant, PTL

\* What a request was told is stored stays, as long as no other request sets
\* that column: no UPDATE of an older load brings the old value back.
THEOREM NoLostUpdates == Spec => []AcknowledgedWritesStick
<1>1. IInv => AcknowledgedWritesStick
  <2> SUFFICES ASSUME IInv, NEW r \in Requests, reply[r] \in Acknowledged,
                      NEW c \in DOMAIN Patch(r), Writers(Target[r], c) = {r}
               PROVE  table[Target[r]][c] = Patch(r)[c]
    BY DEF AcknowledgedWritesStick
  <2>1. Alone(r, c)
    BY DEF Alone
  <2> QED
    BY <2>1 DEF IInv, RequestSound, Written
<1> QED
  BY <1>1, Invariant, PTL

\* No value in the table comes from a request that could not store all it
\* asked for.
THEOREM ChangesAreWhole == Spec => []ColumnsHaveAuthors
<1>1. IInv => ColumnsHaveAuthors
  BY DEF IInv
<1> QED
  BY <1>1, Invariant, PTL

\* A product never goes away and never changes its sku.
THEOREM ProductsRemain == Spec => ProductsStay
<1>1. IInv /\ [Next]_vars => [\A p \in Products : Exists(p) => table'[p] # Absent /\ table'[p].sku = table[p].sku]_vars
  <2> SUFFICES ASSUME IInv, Next
               PROVE  \A p \in Products :
                         Exists(p) => table'[p] # Absent /\ table'[p].sku = table[p].sku
    OBVIOUS
  <2>1. ASSUME NEW r \in Requests, UNCHANGED table \/ Inserts(r) \/ Updates(r)
        PROVE  TableMove(r)
    BY <2>1, TableStays, InsertsMove, UpdatesMove
  <2>2. CASE UNCHANGED table
    BY <2>2 DEF Exists
  <2>3. CASE \E r \in Requests : Inserts(r) \/ Updates(r)
    BY <2>1, <2>3 DEF TableMove
  <2>4. UNCHANGED table \/ \E r \in Requests : Inserts(r) \/ Updates(r)
    BY DEF Next, Handler, Receive, Insert, Load, Commit, Refresh, DbFailure, Crash, At,
           Inserts, Updates
  <2> QED
    BY <2>2, <2>3, <2>4
<1> QED
  BY <1>1, Invariant, PTL DEF Spec, ProductsStay
=============================================================================
