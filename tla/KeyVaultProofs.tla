--------------------------- MODULE KeyVaultProofs ---------------------------
(***************************************************************************)
(* What holds of KeyVault for any keys, requests, KEKs and faults.         *)
(*                                                                         *)
(* A request acts on what it read in an earlier statement. Carried says    *)
(* what each of its steps holds, and the parts of the invariant below say  *)
(* how that relates to the rows, the KEKs and the log as they are by then. *)
(***************************************************************************)
EXTENDS KeyVault, FiniteSetTheorems, TLAPS

Listed == [id: Ids, fp: Prints, status: Statuses, private: BOOLEAN]

Carried(r) ==
  /\ r.pc \in {"open", "promote", "activate", "shred", "erase", "store"} => r.id \in Ids
  /\ r.pc \in {"activate", "demote"} => r.status \in Statuses
  /\ r.pc = "store" => r.head \in 1 .. MaxKek
  /\ r.pc \in {"log", "append"} /\ r.op = "reveal" => r.id \in Ids
  /\ r.pc = "insert" => r.fp \in Prints /\ r.status \in Statuses
  /\ r.pc = "insert" /\ r.op = "restore" => r.page \subseteq Entry
  /\ r.pc = "restore" => r.op = "restore" /\ r.page \subseteq Entry
  /\ r.pc \in {"page", "export", "write", "complete", "fail"} =>
       r.name \in Names /\ r.status \in {"full", "metadata"}
  /\ r.pc = "export" => r.page \subseteq Listed
  /\ r.pc \in {"mark", "droprow"} => r.name \in Names

Typed == TypeOK /\ \A w \in Workers : Carried(run[w])

-----------------------------------------------------------------------------
LEMMA FreeIsRun == Free \in Runs /\ Carried(Free)
BY KeyVaultAssumption DEF Free, Runs, Labels, Carried, Ids

LEMMA TypedInit == Init => Typed
<1> SUFFICES ASSUME Init PROVE Typed
  OBVIOUS
<1>1. rows \in [Ids -> KeyRow] /\ inserted \in 0 .. MaxRows
  BY DEF Init
<1>2. material \in [Ids -> 0 .. MaxKek] /\ kek \in 0 .. MaxKek /\ latest \in 1 .. MaxKek
  BY KeyVaultAssumption DEF Init
<1>3. files \in [Names -> {NoFile} \cup [kind: {"full", "metadata"}, keys: SUBSET Entry]]
  <2>1. \A fp \in Prints : [fp |-> fp, status |-> "active", pem |-> TRUE] \in Entry
    BY DEF Entry, Statuses
  <2> QED BY <2>1 DEF Init
<1>4. run \in [Workers -> Runs] /\ \A w \in Workers : Carried(run[w])
  BY FreeIsRun DEF Init
<1>5. log \in Seq([what: Labels, id: 0 .. MaxRows, prev: Nat])
  BY DEF Init
<1> QED BY <1>1, <1>2, <1>3, <1>4, <1>5, KeyVaultAssumption DEF Init, Typed, TypeOK

\* A step that gives a worker a state of the right kind and leaves the others.
LEMMA MovesTyped ==
  ASSUME Typed, NEW w \in Workers, NEW r \in Runs, Carried(r), Moves(w, r)
  PROVE  run' \in [Workers -> Runs] /\ \A v \in Workers : Carried(run[v])'
BY DEF Moves, Typed, TypeOK

LEMMA StoresTyped ==
  ASSUME Typed, NEW i \in Ids, NEW v \in 0 .. MaxKek, Stores(i, v)
  PROVE  material' \in [Ids -> 0 .. MaxKek] /\ late' \subseteq Ids
BY DEF Stores, Typed, TypeOK

LEMMA LogStepTyped ==
  ASSUME Typed, NEW w \in Workers, ReadHead(w) \/ AppendRecord(w) \/ LogFails(w)
  PROVE  Typed'
<1> DEFINE r == run[w]
<1>0. r \in Runs /\ Carried(r) /\ Len(log) \in Nat
  BY DEF Typed, TypeOK
<1>1. CASE ReadHead(w)
  <2>1. [r EXCEPT !.pc = "append", !.head = Len(log)] \in Runs
    BY <1>0 DEF Runs
  <2>2. Carried([r EXCEPT !.pc = "append", !.head = Len(log)])
    BY <1>0, <1>1 DEF Carried, Runs, ReadHead
  <2>3. run' \in [Workers -> Runs] /\ \A v \in Workers : Carried(run[v])'
    BY <1>1, <2>1, <2>2, MovesTyped DEF ReadHead
  <2> QED BY <1>1, <2>3 DEF ReadHead, Typed, TypeOK, keyVars, bakVars
<1>2. CASE AppendRecord(w)
  <2> DEFINE next == IF r.op = "reveal" THEN [r EXCEPT !.pc = "open", !.head = Len(log) + 1]
                     ELSE Free
  <2>1. next \in Runs
    <3> DEFINE n == Len(log) + 1
    <3> n \in Nat
      BY <1>0
    <3> HIDE DEF n, r
    <3>1. [r EXCEPT !.pc = "open", !.head = n] \in Runs
      BY <1>0 DEF Runs
    <3> USE DEF n, r
    <3> QED BY <3>1, FreeIsRun
  <2>2. Carried(next)
    <3>1. r.op = "reveal" => Carried(next)
      BY <1>0, <1>2 DEF Carried, Runs, AppendRecord
    <3> QED BY <3>1, FreeIsRun
  <2>3. run' \in [Workers -> Runs] /\ \A v \in Workers : Carried(run[v])'
    BY <1>2, <2>1, <2>2, MovesTyped DEF AppendRecord
  <2>4. [what |-> r.op, id |-> r.id, prev |-> r.head]
          \in [what: Labels, id: 0 .. MaxRows, prev: Nat]
    BY <1>0 DEF Runs
  <2>5. log' \in Seq([what: Labels, id: 0 .. MaxRows, prev: Nat])
    BY <1>2, <2>4 DEF AppendRecord, Typed, TypeOK
  <2> QED BY <1>2, <2>3, <2>5 DEF AppendRecord, Typed, TypeOK, keyVars, bakVars
<1>3. CASE LogFails(w)
  <2>1. run' \in [Workers -> Runs] /\ \A v \in Workers : Carried(run[v])'
    BY <1>3, FreeIsRun, MovesTyped DEF LogFails
  <2> QED BY <1>3, <2>1, KeyVaultAssumption DEF LogFails, Fault, Typed, TypeOK, keyVars, bakVars
<1> QED BY <1>1, <1>2, <1>3

\* A request begins: its counter is still within bounds.
LEMMA BeginsTyped ==
  ASSUME Typed, NEW w \in Workers, NEW op, Begins(w, op)
  PROVE  ops' \in 0 .. MaxOps
BY KeyVaultAssumption DEF Begins, Typed, TypeOK

LEMMA StatusTyped ==
  ASSUME Typed, NEW i \in Ids, Exists(i), NEW s \in Statuses
  PROVE  [rows EXCEPT ![i].status = s] \in [Ids -> KeyRow]
<1>1. rows[i] \in [fp: Prints, status: Statuses, private: BOOLEAN]
  BY DEF Typed, TypeOK, Exists, KeyRow
<1>2. [rows[i] EXCEPT !.status = s] \in KeyRow
  BY <1>1 DEF KeyRow
<1> QED BY <1>2 DEF Typed, TypeOK

LEMMA CreateTyped ==
  ASSUME Typed, NEW w \in Workers,
         (\E fp \in Prints : BeginCreate(w, fp)) \/ InsertKey(w)
  PROVE  Typed'
<1> DEFINE r == run[w]
<1>0. r \in Runs /\ Carried(r) /\ kek \in 0 .. MaxKek
  BY DEF Typed, TypeOK
<1>1. ASSUME NEW fp \in Prints, BeginCreate(w, fp) PROVE Typed'
  <2>1. PICK op \in {"generate", "import"}, s \in {"pending", "active"} :
          /\ Begins(w, op)
          /\ Moves(w, [Free EXCEPT !.pc = "insert", !.op = op, !.fp = fp,
                                   !.ver = kek, !.status = s])
    BY <1>1 DEF BeginCreate
  <2> DEFINE new == [Free EXCEPT !.pc = "insert", !.op = op, !.fp = fp,
                                 !.ver = kek, !.status = s]
  <2>4. op \in Labels /\ s \in Statuses
    BY DEF Labels, Statuses
  <2>2. new \in Runs
    BY <1>0, <2>4, FreeIsRun DEF Runs
  <2>5. Carried(new)
    BY <2>4 DEF Free, Carried
  <2>3. run' \in [Workers -> Runs] /\ \A v \in Workers : Carried(run[v])'
    BY <2>1, <2>2, <2>5, MovesTyped
  <2> QED BY <1>1, <2>1, <2>3, BeginsTyped
          DEF BeginCreate, Typed, TypeOK, keyVars, bakVars
<1>2. CASE InsertKey(w)
  <2> DEFINE i    == inserted + 1
             back == IF r.op = "restore" THEN [r EXCEPT !.pc = "restore"] ELSE Free
             row  == [fp |-> r.fp, status |-> r.status, private |-> r.ver > 0]
  <2>0. r.pc = "insert" /\ r.fp \in Prints /\ r.status \in Statuses
    BY <1>0, <1>2 DEF InsertKey, Carried
  <2>1. back \in Runs /\ Carried(back)
    <3>1. [r EXCEPT !.pc = "restore"] \in Runs
      BY <1>0 DEF Runs
    <3>2. r.op = "restore" => Carried([r EXCEPT !.pc = "restore"])
      BY <1>0, <2>0 DEF Carried, Runs
    <3> QED BY <3>1, <3>2, FreeIsRun
  <2>2. CASE RowOf(r.fp) # {}
    <3>1. run' \in [Workers -> Runs] /\ \A v \in Workers : Carried(run[v])'
      BY <1>2, <2>1, <2>2, MovesTyped DEF InsertKey
    <3> QED BY <1>2, <2>2, <3>1 DEF InsertKey, Typed, TypeOK, bakVars
  <2>3. CASE RowOf(r.fp) = {}
    <3>1. inserted < MaxRows /\ i \in Ids
      BY <1>2, <2>3, KeyVaultAssumption DEF InsertKey, Ids, Typed, TypeOK
    <3>2. row \in KeyRow
      BY <1>0, <2>0 DEF KeyRow, Runs
    <3>3. rows' \in [Ids -> KeyRow] /\ inserted' \in 0 .. MaxRows
      <4>1. rows' = [rows EXCEPT ![i] = row] /\ inserted' = i
        BY <1>2, <2>3 DEF InsertKey
      <4> HIDE DEF row, i
      <4>2. rows' \in [Ids -> KeyRow]
        BY <3>1, <3>2, <4>1 DEF Typed, TypeOK
      <4> QED BY <3>1, <4>1, <4>2, KeyVaultAssumption DEF Ids
    <3>4. material' \in [Ids -> 0 .. MaxKek] /\ late' \subseteq Ids
      BY <1>0, <1>2, <2>3, <3>1, StoresTyped DEF InsertKey, Runs
    <3>5. run' \in [Workers -> Runs] /\ \A v \in Workers : Carried(run[v])'
      <4>1. CASE r.op = "restore"
        BY <1>2, <2>1, <2>3, <4>1, MovesTyped DEF InsertKey
      <4>2. CASE r.op # "restore"
        <5> DEFINE new == [r EXCEPT !.id = i, !.pc = "log"]
        <5>1. new \in Runs
          <6>1. i \in 0 .. MaxRows
            BY <3>1 DEF Ids
          <6> HIDE DEF i, r
          <6> QED BY <1>0, <6>1 DEF Runs
        <5>2. Carried(new)
          BY <1>0, <3>1 DEF Carried, Runs
        <5>3. Moves(w, new)
          <6>1. Moves(w, [[r EXCEPT !.id = i] EXCEPT !.pc = "log"])
            BY <1>2, <2>3, <4>2 DEF InsertKey, Logs
          <6>2. [[r EXCEPT !.id = i] EXCEPT !.pc = "log"] = new
            BY <1>0 DEF Runs
          <6> QED BY <6>1, <6>2
        <5> QED BY <5>1, <5>2, <5>3, MovesTyped
      <4> QED BY <4>1, <4>2
    <3> QED BY <1>2, <2>3, <3>3, <3>4, <3>5 DEF InsertKey, Typed, TypeOK, bakVars
  <2> QED BY <2>2, <2>3
<1> QED BY <1>1, <1>2

\* What a rotation's two writes leave of the rows: all but the status of its keys.
LEMMA RotationWrites ==
  ASSUME Typed, NEW w \in Workers, Activate(w) \/ Demote(w)
  PROVE  /\ rows' \in [Ids -> KeyRow] /\ UNCHANGED <<inserted, material, rotated, late>>
         /\ \A i \in Ids : /\ rows'[i] = Gone <=> rows[i] = Gone
                           /\ rows'[i].private = rows[i].private
                           /\ rows'[i].fp = rows[i].fp
                           /\ rows'[i] = rows[i] \/ Rotating(i)
<1>0. /\ rows \in [Ids -> KeyRow] /\ run[w] \in Runs /\ Carried(run[w])
      /\ UNCHANGED <<inserted, material, rotated, late>>
  BY DEF Typed, TypeOK, Activate, Demote
<1>1. ASSUME NEW i \in Ids, Exists(i), NEW s \in Statuses
      PROVE  LET row == [rows[i] EXCEPT !.status = s] IN
             /\ row \in KeyRow /\ row # Gone
             /\ row.private = rows[i].private /\ row.fp = rows[i].fp
  <2>1. rows[i] \in [fp: Prints, status: Statuses, private: BOOLEAN]
    BY <1>0, <1>1 DEF Exists, KeyRow
  <2> QED BY <1>1, <2>1 DEF KeyRow, Gone, Statuses
<1>2. CASE Activate(w)
  <2>1. run[w].id \in Ids /\ run[w].pc = "activate" /\ "active" \in Statuses
    BY <1>0, <1>2 DEF Activate, Carried, Statuses
  <2>2. CASE UNCHANGED rows
    BY <1>0, <2>2
  <2>3. CASE Exists(run[w].id) /\ rows' = [rows EXCEPT ![run[w].id].status = "active"]
    <3>1. rows' = [rows EXCEPT ![run[w].id] = [rows[run[w].id] EXCEPT !.status = "active"]]
      BY <1>0, <2>1, <2>3
    <3>2. Rotating(run[w].id) /\ rows[run[w].id] # Gone
      BY <2>1, <2>3 DEF Rotating, Exists
    <3> QED BY <1>0, <1>1, <2>1, <2>3, <3>1, <3>2
  <2> QED BY <1>2, <2>2, <2>3 DEF Activate
<1>3. CASE Demote(w)
  <2>1. /\ run[w].status \in Statuses /\ run[w].pc = "demote"
        /\ rows' = [i \in Ids |-> IF i \in run[w].todo /\ Exists(i)
                                  THEN [rows[i] EXCEPT !.status = run[w].status] ELSE rows[i]]
    BY <1>0, <1>3 DEF Demote, Carried
  <2>2. \A i \in run[w].todo : Rotating(i)
    BY <2>1 DEF Rotating
  <2>3. \A i \in Ids : Exists(i) <=> rows[i] # Gone
    BY DEF Exists
  <2> QED BY <1>0, <1>1, <2>1, <2>2, <2>3
<1> QED BY <1>2, <1>3

LEMMA RotationTyped ==
  ASSUME Typed, NEW w \in Workers,
         \/ Activate(w) \/ Demote(w)
         \/ \E i \in Ids : BeginRetirement(w, i) \/ \E j \in Ids : BeginPromotion(w, i, j)
  PROVE  Typed'
<1> DEFINE r == run[w]
<1>0. Typed /\ r \in Runs /\ Carried(r)
  BY DEF Typed, TypeOK
<1>1. CASE Activate(w)
  <2> DEFINE new == [r EXCEPT !.pc = "demote", !.id = 0]
  <2>1. 0 \in 0 .. MaxRows
    BY KeyVaultAssumption
  <2>2. new \in Runs
    BY <1>0, <2>1 DEF Runs
  <2>3. Carried(new)
    BY <1>0, <1>1 DEF Activate, Runs, Carried
  <2>4. run' \in [Workers -> Runs] /\ \A v \in Workers : Carried(run[v])'
    BY <1>1, <2>2, <2>3, FreeIsRun, MovesTyped DEF Activate
  <2> QED BY <1>0, <1>1, <2>4, RotationWrites DEF Activate, Typed, TypeOK, bakVars
<1>2. CASE Demote(w)
  <2>1. run' \in [Workers -> Runs] /\ \A v \in Workers : Carried(run[v])'
    BY <1>2, FreeIsRun, MovesTyped DEF Demote
  <2> QED BY <1>0, <1>2, <2>1, RotationWrites DEF Demote, Typed, TypeOK, bakVars
<1>3. ASSUME NEW i \in Ids, BeginRetirement(w, i) PROVE Typed'
  <2> DEFINE new == [Free EXCEPT !.pc = "demote", !.op = "rotation", !.todo = {i},
                                 !.status = "retired"]
  <2>0. Free \in Runs /\ {i} \in SUBSET Ids /\ "retired" \in Statuses
        /\ "rotation" \in Labels
    BY FreeIsRun DEF Statuses, Labels
  <2>1. new \in Runs
    BY <2>0 DEF Runs
  <2>3. Carried(new)
    BY <2>0 DEF Free, Carried, Statuses
  <2>2. run' \in [Workers -> Runs] /\ \A v \in Workers : Carried(run[v])'
    BY <1>3, <2>1, <2>3, MovesTyped DEF BeginRetirement
  <2> QED BY <1>3, <2>2, BeginsTyped DEF BeginRetirement, Typed, TypeOK, keyVars, bakVars
<1>4. ASSUME NEW i \in Ids, NEW j \in Ids, BeginPromotion(w, i, j) PROVE Typed'
  <2> DEFINE new == [Free EXCEPT !.pc = "activate", !.op = "rotation", !.id = j,
                                 !.todo = {i}, !.status = "retiring"]
  <2>0. Free \in Runs /\ {i} \in SUBSET Ids /\ "retiring" \in Statuses
        /\ "rotation" \in Labels /\ j \in 0 .. MaxRows
    BY FreeIsRun DEF Statuses, Labels, Ids
  <2>1. new \in Runs
    BY <2>0 DEF Runs
  <2>3. Carried(new)
    BY <2>0 DEF Free, Carried, Statuses, Ids
  <2>2. run' \in [Workers -> Runs] /\ \A v \in Workers : Carried(run[v])'
    BY <1>4, <2>1, <2>3, MovesTyped DEF BeginPromotion
  <2> QED BY <1>4, <2>2, BeginsTyped DEF BeginPromotion, Typed, TypeOK, keyVars, bakVars
<1> QED BY <1>1, <1>2, <1>3, <1>4

LEMMA KeyStepTyped ==
  ASSUME Typed, NEW w \in Workers,
         \/ HandOver(w) \/ Promote(w) \/ DestroyMaterial(w) \/ EraseKey(w)
         \/ \E i \in Ids : \/ RequestReveal(w, i) \/ SetStatus(w, i)
                           \/ ReadForProof(w, i) \/ BeginDelete(w, i)
  PROVE  Typed'
<1> DEFINE r == run[w]
<1> Typed /\ r \in Runs /\ Carried(r) /\ {"status", "reveal", "prove", "delete"} \subseteq Labels
  BY DEF Typed, TypeOK, Labels
<1>1. CASE HandOver(w)
  <2>1. r.id \in Ids /\ r.head \in Nat
    BY <1>1 DEF HandOver, Carried, Runs
  <2>2. handed' \subseteq [id: Ids, rec: Nat]
    BY <1>1, <2>1 DEF HandOver, Typed, TypeOK
  <2>3. run' \in [Workers -> Runs] /\ \A v \in Workers : Carried(run[v])'
    BY <1>1, FreeIsRun, MovesTyped DEF HandOver
  <2> QED BY <1>1, <2>2, <2>3 DEF HandOver, Typed, TypeOK, keyVars, bakVars
<1>2. CASE Promote(w)
  <2>1. run' \in [Workers -> Runs] /\ \A v \in Workers : Carried(run[v])'
    BY <1>2, FreeIsRun, MovesTyped DEF Promote
  <2>2. rows' \in [Ids -> KeyRow]
    <3>1. r.id \in Ids /\ "active" \in Statuses
      BY <1>2 DEF Promote, Carried, Statuses
    <3> QED BY <1>2, <3>1, StatusTyped DEF Promote, Typed, TypeOK
  <2> QED BY <1>2, <2>1, <2>2 DEF Promote, Typed, TypeOK, bakVars
<1>3. CASE DestroyMaterial(w)
  <2>1. r.id \in Ids
    BY <1>3 DEF DestroyMaterial, Carried
  <2>2. rows' \in [Ids -> KeyRow]
    <3>1. CASE Exists(r.id)
      <4>1. rows[r.id] \in [fp: Prints, status: Statuses, private: BOOLEAN]
        BY <2>1, <3>1 DEF Typed, TypeOK, Exists, KeyRow
      <4>2. [rows[r.id] EXCEPT !.status = "destroyed", !.private = FALSE] \in KeyRow
        BY <4>1 DEF KeyRow, Statuses
      <4>3. rows' = [rows EXCEPT ![r.id] =
                       [rows[r.id] EXCEPT !.status = "destroyed", !.private = FALSE]]
        BY <1>3, <2>1, <3>1, <4>1 DEF DestroyMaterial, Typed, TypeOK
      <4> QED BY <2>1, <4>2, <4>3 DEF Typed, TypeOK
    <3> QED BY <1>3, <3>1 DEF DestroyMaterial, Typed, TypeOK
  <2>3. material' \in [Ids -> 0 .. MaxKek] /\ late' \subseteq Ids
    BY <1>3, <2>1, StoresTyped, KeyVaultAssumption DEF DestroyMaterial
  <2>4. [r EXCEPT !.pc = "erase"] \in Runs
    BY DEF Runs
  <2>5. Carried([r EXCEPT !.pc = "erase"])
    BY <2>1 DEF Runs, Carried
  <2>6. run' \in [Workers -> Runs] /\ \A v \in Workers : Carried(run[v])'
    BY <1>3, <2>4, <2>5, MovesTyped DEF DestroyMaterial
  <2> QED BY <1>3, <2>2, <2>3, <2>6 DEF DestroyMaterial, Typed, TypeOK, bakVars
<1>4. CASE EraseKey(w)
  <2>1. r.id \in Ids
    BY <1>4 DEF EraseKey, Carried
  <2>2. rows' \in [Ids -> KeyRow] /\ assigned' \subseteq Ids
    BY <1>4, <2>1 DEF EraseKey, Typed, TypeOK, KeyRow
  <2>3. material' \in [Ids -> 0 .. MaxKek] /\ late' \subseteq Ids
    BY <1>4, <2>1, StoresTyped, KeyVaultAssumption DEF EraseKey
  <2>4. [r EXCEPT !.pc = "log"] \in Runs
    BY DEF Runs
  <2>5. Carried([r EXCEPT !.pc = "log"])
    BY <2>1 DEF Runs, Carried
  <2>6. run' \in [Workers -> Runs] /\ \A v \in Workers : Carried(run[v])'
    BY <1>4, <2>4, <2>5, FreeIsRun, MovesTyped DEF EraseKey, Logs
  <2> QED BY <1>4, <2>2, <2>3, <2>6 DEF EraseKey, Typed, TypeOK, bakVars
<1>5. ASSUME NEW i \in Ids, RequestReveal(w, i) PROVE Typed'
  <2> DEFINE new == [[Free EXCEPT !.op = "reveal", !.id = i] EXCEPT !.pc = "log"]
  <2>1. i \in 0 .. MaxRows
    BY DEF Ids
  <2>2. new \in Runs
    BY <2>1, FreeIsRun DEF Runs
  <2>3. Carried(new)
    BY DEF Free, Carried
  <2>4. run' \in [Workers -> Runs] /\ \A v \in Workers : Carried(run[v])'
    BY <1>5, <2>2, <2>3, MovesTyped DEF RequestReveal, Logs
  <2> QED BY <1>5, <2>4, BeginsTyped DEF RequestReveal, Typed, TypeOK, keyVars, bakVars
<1>6. ASSUME NEW i \in Ids, SetStatus(w, i) PROVE Typed'
  <2> DEFINE new == [[Free EXCEPT !.op = "status", !.id = i] EXCEPT !.pc = "log"]
  <2>1. i \in 0 .. MaxRows
    BY DEF Ids
  <2>2. new \in Runs
    BY <2>1, FreeIsRun DEF Runs
  <2>3. Carried(new)
    BY DEF Free, Carried
  <2>4. run' \in [Workers -> Runs] /\ \A v \in Workers : Carried(run[v])'
    BY <1>6, <2>2, <2>3, MovesTyped DEF SetStatus, Logs
  <2>5. PICK s \in {"active", "revoked"} : rows' = [rows EXCEPT ![i].status = s]
    BY <1>6 DEF SetStatus
  <2>6. rows' \in [Ids -> KeyRow]
    BY <1>6, <2>5, StatusTyped DEF SetStatus, Statuses
  <2> QED BY <1>6, <2>4, <2>6, BeginsTyped DEF SetStatus, Typed, TypeOK, bakVars
<1>7. ASSUME NEW i \in Ids, ReadForProof(w, i) PROVE Typed'
  <2> DEFINE new == [Free EXCEPT !.pc = "promote", !.op = "prove", !.id = i,
                                 !.status = rows[i].status]
  <2>1. i \in 0 .. MaxRows /\ rows[i].status \in Statuses
    <3>1. rows[i] \in [fp: Prints, status: Statuses, private: BOOLEAN]
      BY <1>7 DEF ReadForProof, Exists, Typed, TypeOK, KeyRow
    <3> QED BY <3>1 DEF Ids
  <2>2. new \in Runs
    BY <2>1, FreeIsRun DEF Runs
  <2>3. Carried(new)
    BY DEF Free, Carried
  <2>4. run' \in [Workers -> Runs] /\ \A v \in Workers : Carried(run[v])'
    BY <1>7, <2>2, <2>3, MovesTyped DEF ReadForProof
  <2> QED BY <1>7, <2>4, BeginsTyped DEF ReadForProof, Typed, TypeOK, keyVars, bakVars
<1>8. ASSUME NEW i \in Ids, BeginDelete(w, i) PROVE Typed'
  <2> DEFINE new == [Free EXCEPT !.pc = "shred", !.op = "delete", !.id = i]
  <2>1. i \in 0 .. MaxRows
    BY DEF Ids
  <2>2. new \in Runs
    BY <2>1, FreeIsRun DEF Runs
  <2>3. Carried(new)
    BY DEF Free, Carried
  <2>4. run' \in [Workers -> Runs] /\ \A v \in Workers : Carried(run[v])'
    BY <1>8, <2>2, <2>3, MovesTyped DEF BeginDelete
  <2> QED BY <1>8, <2>4, BeginsTyped DEF BeginDelete, Typed, TypeOK, keyVars, bakVars
<1> QED BY <1>1, <1>2, <1>3, <1>4, <1>5, <1>6, <1>7, <1>8

LEMMA KekStepTyped ==
  ASSUME Typed, NEW w \in Workers,
         BeginRotateKEK(w) \/ ListOld(w) \/ Rewrap(w) \/ StoreMaterial(w)
  PROVE  Typed'
<1> DEFINE r == run[w]
<1> Typed /\ r \in Runs /\ Carried(r) /\ "rotate" \in Labels /\ 0 \in 0 .. MaxRows
  BY KeyVaultAssumption DEF Typed, TypeOK, Labels
<1>1. CASE BeginRotateKEK(w)
  <2> DEFINE new == [Free EXCEPT !.pc = "list", !.op = "rotate", !.ver = kek]
  <2>1. kek \in 0 .. MaxKek
    BY DEF Typed, TypeOK
  <2>2. new \in Runs
    BY <2>1, FreeIsRun DEF Runs
  <2>3. Carried(new)
    BY DEF Free, Carried
  <2>4. run' \in [Workers -> Runs] /\ \A v \in Workers : Carried(run[v])'
    BY <1>1, <2>2, <2>3, MovesTyped DEF BeginRotateKEK
  <2> QED BY <1>1, <2>4, BeginsTyped DEF BeginRotateKEK, Typed, TypeOK, keyVars, bakVars
<1>2. CASE ListOld(w)
  <2> DEFINE next == [[Free EXCEPT !.op = "rotate"] EXCEPT !.pc = "log"]
  <2>1. PICK batch \in SUBSET Old(r.ver) :
          \/ Moves(w, [r EXCEPT !.pc = "rewrap", !.todo = batch]) /\ UNCHANGED rotated
          \/ Moves(w, next) /\ rotated' = IF rotated < r.ver THEN r.ver ELSE rotated
    BY <1>2 DEF ListOld, Logs
  <2>2. batch \in SUBSET Ids
    BY DEF Old
  <2>3. [r EXCEPT !.pc = "rewrap", !.todo = batch] \in Runs /\ next \in Runs
    <3>1. [r EXCEPT !.pc = "rewrap", !.todo = batch] \in Runs
      BY <2>2 DEF Runs
    <3>2. next \in Runs
      BY FreeIsRun DEF Runs
    <3> QED BY <3>1, <3>2
  <2>4. Carried([r EXCEPT !.pc = "rewrap", !.todo = batch]) /\ Carried(next)
    BY DEF Runs, Free, Carried
  <2>5. run' \in [Workers -> Runs] /\ \A v \in Workers : Carried(run[v])'
    BY <2>1, <2>3, <2>4, MovesTyped
  <2>6. rotated' \in 0 .. MaxKek
    BY <2>1 DEF Runs, Typed, TypeOK
  <2> QED BY <1>2, <2>5, <2>6 DEF ListOld, Typed, TypeOK, keyVars, bakVars
<1>3. CASE Rewrap(w)
  <2>1. PICK i \in r.todo : Moves(w, IF material[i] = 0 \/ kek = 0 THEN Free
                   ELSE [r EXCEPT !.pc = "store", !.id = i, !.head = kek])
    BY <1>3 DEF Rewrap
  <2> DEFINE new == [r EXCEPT !.pc = "store", !.id = i, !.head = kek]
  <2>2. i \in Ids /\ i \in 0 .. MaxRows /\ kek \in Nat /\ kek \in 0 .. MaxKek
    BY DEF Runs, Ids, Typed, TypeOK
  <2>3. new \in Runs
    BY <2>2 DEF Runs
  <2>4. kek # 0 => Carried(new)
    BY <2>2 DEF Runs, Carried
  <2>5. run' \in [Workers -> Runs] /\ \A v \in Workers : Carried(run[v])'
    BY <2>1, <2>3, <2>4, FreeIsRun, MovesTyped
  <2> QED BY <1>3, <2>5 DEF Rewrap, Typed, TypeOK, keyVars, bakVars
<1>4. CASE StoreMaterial(w)
  <2> DEFINE rest == r.todo \ {r.id}
             p    == IF rest = {} THEN "list" ELSE "rewrap"
             new  == [r EXCEPT !.todo = rest, !.id = 0, !.head = 0, !.pc = p]
  <2>1. r.id \in Ids /\ r.head \in 0 .. MaxKek
    BY <1>4 DEF StoreMaterial, Carried
  <2>2. material' \in [Ids -> 0 .. MaxKek] /\ late' \subseteq Ids
    BY <1>4, <2>1, StoresTyped DEF StoreMaterial, Typed, TypeOK
  <2>3. new \in Runs
    <3>1. rest \in SUBSET Ids /\ p \in {"list", "rewrap"}
      BY DEF Runs
    <3> HIDE DEF rest, p, r
    <3> QED BY <3>1 DEF Runs
  <2>4. Carried(new)
    <3>1. p \in {"list", "rewrap"}
      OBVIOUS
    <3> HIDE DEF p
    <3> QED BY <3>1 DEF Runs, Carried
  <2>5. run' \in [Workers -> Runs] /\ \A v \in Workers : Carried(run[v])'
    BY <1>4, <2>3, <2>4, FreeIsRun, MovesTyped DEF StoreMaterial
  <2> QED BY <1>4, <2>2, <2>5 DEF StoreMaterial, Typed, TypeOK, bakVars
<1> QED BY <1>1, <1>2, <1>3, <1>4

BackupRow == [state: {"running", "completed", "failed", "verified"},
              kind: {"full", "metadata"}, expires: BOOLEAN, must: SUBSET Prints]
Archive == [kind: {"full", "metadata"}, keys: SUBSET Entry]

LEMMA BackupStateTyped ==
  ASSUME Typed, NEW n \in Names, backups[n] # NoBackup,
         NEW s \in {"completed", "failed", "verified"}
  PROVE  [backups EXCEPT ![n].state = s] \in [Names -> {NoBackup} \cup BackupRow]
<1>1. backups[n] \in BackupRow
  BY DEF Typed, TypeOK, BackupRow
<1>2. [backups[n] EXCEPT !.state = s] \in BackupRow
  BY <1>1 DEF BackupRow
<1> QED BY <1>2 DEF Typed, TypeOK, BackupRow

LEMMA WriteBackupTyped ==
  ASSUME Typed, NEW w \in Workers,
         \/ \E n \in Names, kind \in {"full", "metadata"} : BeginBackup(w, n, kind)
         \/ ListKeys(w) \/ ExportKey(w) \/ WriteArchive(w)
  PROVE  Typed'
<1> DEFINE r == run[w]
<1> Typed /\ r \in Runs /\ Carried(r) /\ "backup" \in Labels
  BY DEF Typed, TypeOK, Labels
<1>1. ASSUME NEW n \in Names, NEW kind \in {"full", "metadata"}, BeginBackup(w, n, kind)
      PROVE Typed'
  <2> DEFINE held == {i \in Ids : rows[i].private}
             new  == [Free EXCEPT !.pc = "page", !.op = "backup", !.name = n,
                                  !.status = kind, !.todo = held]
  <2>1. new \in Runs
    <3>1. held \in SUBSET Ids
      OBVIOUS
    <3> HIDE DEF held
    <3> QED BY <3>1, FreeIsRun DEF Runs
  <2>2. Carried(new)
    BY DEF Free, Carried
  <2>3. run' \in [Workers -> Runs] /\ \A v \in Workers : Carried(run[v])'
    BY <1>1, <2>1, <2>2, MovesTyped DEF BeginBackup
  <2>4. PICK expires \in BOOLEAN : backups' = [backups EXCEPT ![n] =
          [state |-> "running", kind |-> kind, expires |-> expires, must |-> {}]]
    BY <1>1 DEF BeginBackup
  <2>5. [state |-> "running", kind |-> kind, expires |-> expires, must |-> {}] \in BackupRow
    BY DEF BackupRow
  <2>6. backups' \in [Names -> {NoBackup} \cup BackupRow]
    BY <2>4, <2>5 DEF Typed, TypeOK, BackupRow
  <2> QED BY <1>1, <2>3, <2>6, BeginsTyped
          DEF BeginBackup, BackupRow, Typed, TypeOK, keyVars
<1>2. CASE ListKeys(w)
  <2> DEFINE ids  == NewestPage
             p    == IF ids = {} THEN "write" ELSE "export"
             page == {[id |-> i, fp |-> rows[i].fp, status |-> rows[i].status,
                       private |-> rows[i].private] : i \in ids}
             kept == r.todo \cap ids
             new  == [r EXCEPT !.pc = p, !.page = page, !.todo = kept]
  <2>1. Moves(w, new)
    BY <1>2 DEF ListKeys
  <2>a. ids \subseteq Ids /\ (\A i \in ids : Exists(i)) /\ kept \in SUBSET Ids
    BY DEF NewestPage
  <2> HIDE DEF ids
  <2>2. page \subseteq Listed
    <3> SUFFICES ASSUME NEW i \in ids
                 PROVE  [id |-> i, fp |-> rows[i].fp, status |-> rows[i].status,
                         private |-> rows[i].private] \in Listed
      OBVIOUS
    <3>1. rows[i] \in [fp: Prints, status: Statuses, private: BOOLEAN]
      BY <2>a DEF Typed, TypeOK, Exists, KeyRow
    <3> QED BY <2>a, <3>1 DEF Listed
  <2>3. p \in {"write", "export"}
    OBVIOUS
  <2> HIDE DEF p, page, kept
  <2>4. new \in Runs
    BY <2>2, <2>3, <2>a DEF Runs, Listed
  <2>5. Carried(new)
    <3>1. r.name \in Names /\ r.status \in {"full", "metadata"}
      BY <1>2 DEF ListKeys, Carried
    <3> QED BY <2>2, <2>3, <3>1 DEF Runs, Carried
  <2>6. run' \in [Workers -> Runs] /\ \A v \in Workers : Carried(run[v])'
    BY <2>1, <2>4, <2>5, MovesTyped
  <2> QED BY <1>2, <2>6 DEF ListKeys, Typed, TypeOK, keyVars, bakVars
<1>3. CASE ExportKey(w)
  <2>0. r.pc = "export" /\ r.name \in Names /\ r.status \in {"full", "metadata"}
        /\ r.page \subseteq Listed
    BY <1>3 DEF ExportKey, Carried
  <2>1. PICK k \in r.page : Exported(w, r, k, k.private /\ r.status # "metadata")
                            \/ ExportFails(w, r, k, k.private /\ r.status # "metadata")
    BY <1>3 DEF ExportKey
  <2>2. ASSUME NEW pem \in BOOLEAN
        PROVE  Takes(r, k, pem) \in Runs /\ Carried(Takes(r, k, pem))
    <3> DEFINE rest == r.page \ {k}
               p    == IF rest = {} THEN "write" ELSE "export"
               out  == r.out \cup {[fp |-> k.fp, status |-> k.status, pem |-> pem]}
    <3>1. Takes(r, k, pem) = [r EXCEPT !.page = rest, !.pc = p, !.out = out]
      BY DEF Takes
    <3>2. rest \subseteq Listed /\ p \in {"write", "export"}
      BY <2>0
    <3>3. out \subseteq Entry
      <4>1. k \in Listed
        BY <2>0
      <4>2. [fp |-> k.fp, status |-> k.status, pem |-> pem] \in Entry
        BY <4>1 DEF Listed, Entry
      <4> QED BY <4>2 DEF Runs
    <3> HIDE DEF rest, p, out
    <3>4. [r EXCEPT !.page = rest, !.pc = p, !.out = out] \in Runs
      BY <3>2, <3>3 DEF Runs, Listed
    <3>5. Carried([r EXCEPT !.page = rest, !.pc = p, !.out = out])
      BY <2>0, <3>2 DEF Runs, Carried
    <3> QED BY <3>1, <3>4, <3>5
  <2>3. CASE Exported(w, r, k, k.private /\ r.status # "metadata")
    <3>1. (k.private /\ r.status # "metadata") \in BOOLEAN
      OBVIOUS
    <3>2. run' \in [Workers -> Runs] /\ \A v \in Workers : Carried(run[v])'
      BY <2>2, <2>3, <3>1, MovesTyped DEF Exported
    <3> QED BY <1>3, <2>3, <3>2 DEF ExportKey, Exported, Typed, TypeOK, keyVars, bakVars
  <2>4. CASE ExportFails(w, r, k, k.private /\ r.status # "metadata")
    <3>1. [r EXCEPT !.pc = "fail"] \in Runs
      BY DEF Runs
    <3>2. Carried([r EXCEPT !.pc = "fail"])
      BY <2>0 DEF Runs, Carried
    <3>3. run' \in [Workers -> Runs] /\ \A v \in Workers : Carried(run[v])'
      BY <2>4, <3>1, <3>2, MovesTyped DEF ExportFails
    <3>4. faults' \in 0 .. MaxFaults
      BY <2>4, KeyVaultAssumption DEF ExportFails, Fault, Typed, TypeOK
    <3> QED BY <1>3, <3>3, <3>4 DEF ExportKey, Typed, TypeOK, keyVars, bakVars
  <2> QED BY <2>1, <2>3, <2>4
<1>4. CASE WriteArchive(w)
  <2>1. r.name \in Names /\ r.status \in {"full", "metadata"} /\ r.out \subseteq Entry
    BY <1>4 DEF WriteArchive, Carried, Runs
  <2>2. [kind |-> r.status, keys |-> r.out] \in Archive
    BY <2>1 DEF Archive
  <2>3. files' \in [Names -> {NoFile} \cup Archive]
    BY <1>4, <2>2 DEF WriteArchive, Typed, TypeOK, Archive
  <2>4. [r EXCEPT !.pc = "complete"] \in Runs
    BY DEF Runs
  <2>5. Carried([r EXCEPT !.pc = "complete"])
    BY <2>1 DEF Runs, Carried
  <2>6. run' \in [Workers -> Runs] /\ \A v \in Workers : Carried(run[v])'
    BY <1>4, <2>4, <2>5, MovesTyped DEF WriteArchive
  <2> QED BY <1>4, <2>3, <2>6 DEF WriteArchive, Archive, Typed, TypeOK, keyVars
<1> QED BY <1>1, <1>2, <1>3, <1>4

LEMMA EndBackupTyped ==
  ASSUME Typed, NEW w \in Workers,
         \/ CompleteBackup(w) \/ FailBackup(w) \/ MarkVerified(w) \/ DropBackup(w)
         \/ \E n \in Names : BeginVerify(w, n) \/ RemoveArchive(w, n)
  PROVE  Typed'
<1> DEFINE r == run[w]
<1> Typed /\ r \in Runs /\ Carried(r) /\ {"backup", "verify", "unbackup"} \subseteq Labels
  BY DEF Typed, TypeOK, Labels
<1>1. CASE CompleteBackup(w)
  <2> DEFINE new  == [[Free EXCEPT !.op = "backup"] EXCEPT !.pc = "log"]
             must == {rows[i].fp : i \in {j \in r.todo : rows[j].private}}
  <2>1. r.name \in Names
    BY <1>1 DEF CompleteBackup, Carried
  <2>2. must \subseteq Prints
    <3> SUFFICES ASSUME NEW i \in r.todo, rows[i].private PROVE rows[i].fp \in Prints
      OBVIOUS
    <3>1. i \in Ids
      BY DEF Runs
    <3> QED BY <3>1 DEF Typed, TypeOK, KeyRow, Gone
  <2>3. new \in Runs
    BY FreeIsRun DEF Runs
  <2>4. Carried(new)
    BY DEF Free, Carried
  <2>5. run' \in [Workers -> Runs] /\ \A v \in Workers : Carried(run[v])'
    BY <1>1, <2>3, <2>4, FreeIsRun, MovesTyped DEF CompleteBackup, Logs
  <2>6. backups' \in [Names -> {NoBackup} \cup BackupRow]
    <3>1. CASE backups[r.name] = NoBackup
      BY <1>1, <3>1 DEF CompleteBackup, Typed, TypeOK, BackupRow
    <3>2. CASE backups[r.name] # NoBackup
      <4>1. backups[r.name] \in BackupRow
        BY <2>1, <3>2 DEF Typed, TypeOK, BackupRow
      <4> HIDE DEF must
      <4>2. [backups[r.name] EXCEPT !.state = "completed", !.must = must] \in BackupRow
        BY <2>2, <4>1 DEF BackupRow
      <4>3. backups' = [backups EXCEPT ![r.name] =
                          [backups[r.name] EXCEPT !.state = "completed", !.must = must]]
        BY <1>1, <2>1, <3>2, <4>1 DEF CompleteBackup, must, Typed, TypeOK
      <4> QED BY <4>2, <4>3 DEF Typed, TypeOK, BackupRow
    <3> QED BY <3>1, <3>2
  <2> QED BY <1>1, <2>5, <2>6 DEF CompleteBackup, BackupRow, Typed, TypeOK, keyVars
<1>2. CASE FailBackup(w)
  <2>1. r.name \in Names
    BY <1>2 DEF FailBackup, Carried
  <2>2. backups' \in [Names -> {NoBackup} \cup BackupRow]
    BY <1>2, <2>1, BackupStateTyped DEF FailBackup, Typed, TypeOK, BackupRow
  <2>3. run' \in [Workers -> Runs] /\ \A v \in Workers : Carried(run[v])'
    BY <1>2, FreeIsRun, MovesTyped DEF FailBackup
  <2> QED BY <1>2, <2>2, <2>3 DEF FailBackup, BackupRow, Typed, TypeOK, keyVars
<1>3. CASE MarkVerified(w)
  <2> DEFINE new == [[Free EXCEPT !.op = "verify"] EXCEPT !.pc = "log"]
  <2>1. r.name \in Names
    BY <1>3 DEF MarkVerified, Carried
  <2>2. backups' \in [Names -> {NoBackup} \cup BackupRow]
    BY <1>3, <2>1, BackupStateTyped DEF MarkVerified, Typed, TypeOK, BackupRow
  <2>3. new \in Runs
    BY FreeIsRun DEF Runs
  <2>4. Carried(new)
    BY DEF Free, Carried
  <2>5. run' \in [Workers -> Runs] /\ \A v \in Workers : Carried(run[v])'
    BY <1>3, <2>3, <2>4, MovesTyped DEF MarkVerified, Logs
  <2> QED BY <1>3, <2>2, <2>5 DEF MarkVerified, BackupRow, Typed, TypeOK, keyVars
<1>4. CASE DropBackup(w)
  <2>1. run' \in [Workers -> Runs] /\ \A v \in Workers : Carried(run[v])'
    BY <1>4, FreeIsRun, MovesTyped DEF DropBackup
  <2>2. backups' \in [Names -> {NoBackup} \cup BackupRow]
    BY <1>4 DEF DropBackup, Typed, TypeOK, BackupRow
  <2> QED BY <1>4, <2>1, <2>2 DEF DropBackup, BackupRow, Typed, TypeOK, keyVars
<1>5. ASSUME NEW n \in Names, BeginVerify(w, n) PROVE Typed'
  <2> DEFINE mark == [Free EXCEPT !.pc = "mark", !.op = "verify", !.name = n]
             logs == [Free EXCEPT !.pc = "log", !.op = "verify"]
  <2>1. mark \in Runs
    BY FreeIsRun DEF Runs
  <2>2. logs \in Runs
    BY FreeIsRun DEF Runs
  <2>3. Carried(mark) /\ Carried(logs)
    BY DEF Free, Carried
  <2>4. run' \in [Workers -> Runs] /\ \A v \in Workers : Carried(run[v])'
    BY <1>5, <2>1, <2>2, <2>3, MovesTyped DEF BeginVerify
  <2> QED BY <1>5, <2>4, BeginsTyped DEF BeginVerify, Typed, TypeOK, keyVars, bakVars
<1>6. ASSUME NEW n \in Names, RemoveArchive(w, n) PROVE Typed'
  <2> DEFINE new == [Free EXCEPT !.pc = "droprow", !.op = "unbackup", !.name = n]
  <2>1. new \in Runs
    BY FreeIsRun DEF Runs
  <2>2. Carried(new)
    BY DEF Free, Carried
  <2>3. run' \in [Workers -> Runs] /\ \A v \in Workers : Carried(run[v])'
    BY <1>6, <2>1, <2>2, MovesTyped DEF RemoveArchive
  <2>4. files' \in [Names -> {NoFile} \cup Archive] /\ removed' \subseteq Names
    BY <1>6 DEF RemoveArchive, Typed, TypeOK, Archive
  <2>5. ops' \in 0 .. MaxOps
    BY <1>6, BeginsTyped DEF RemoveArchive
  <2>6. faults' \in 0 .. MaxFaults
    BY <1>6 DEF RemoveArchive, Typed, TypeOK
  <2> QED BY <1>6, <2>3, <2>4, <2>5, <2>6
          DEF RemoveArchive, Archive, Typed, TypeOK, keyVars
<1> QED BY <1>1, <1>2, <1>3, <1>4, <1>5, <1>6

LEMMA RestoreTyped ==
  ASSUME Typed, NEW w \in Workers,
         RestoreKey(w) \/ \E n \in Names : BeginRestore(w, n)
  PROVE  Typed'
<1> DEFINE r == run[w]
<1> Typed /\ r \in Runs /\ Carried(r) /\ "restore" \in Labels
  BY DEF Typed, TypeOK, Labels
<1>1. CASE RestoreKey(w)
  <2>0. r.op = "restore" /\ r.page \subseteq Entry
    BY <1>1 DEF RestoreKey, Carried
  <2>1. CASE Logs(w, [Free EXCEPT !.op = "restore"]) /\ UNCHANGED rows
    <3> DEFINE new == [[Free EXCEPT !.op = "restore"] EXCEPT !.pc = "log"]
    <3>1. new \in Runs
      BY FreeIsRun DEF Runs
    <3>2. Carried(new)
      BY DEF Free, Carried
    <3>3. run' \in [Workers -> Runs] /\ \A v \in Workers : Carried(run[v])'
      BY <2>1, <3>1, <3>2, MovesTyped DEF Logs
    <3> QED BY <1>1, <2>1, <3>3 DEF RestoreKey, Typed, TypeOK, bakVars
  <2>2. ASSUME NEW e \in r.page, UNCHANGED rows,
               LET rest == [r EXCEPT !.page = @ \ {e}] IN
               \/ Moves(w, rest)
               \/ Moves(w, [rest EXCEPT !.pc = "insert", !.fp = e.fp, !.status = e.status,
                                        !.ver = IF e.pem THEN kek ELSE 0])
        PROVE Typed'
    <3> DEFINE left == r.page \ {e}
               v    == IF e.pem THEN kek ELSE 0
               rest == [r EXCEPT !.page = left]
               next == [rest EXCEPT !.pc = "insert", !.fp = e.fp, !.status = e.status,
                                    !.ver = v]
    <3>1. left \subseteq Entry /\ e.fp \in Prints /\ e.status \in Statuses /\ v \in 0 .. MaxKek
      <4>1. e \in Entry /\ left \subseteq Entry
        BY <2>0
      <4>2. kek \in 0 .. MaxKek /\ 0 \in 0 .. MaxKek
        BY KeyVaultAssumption DEF Typed, TypeOK
      <4>3. e.fp \in Prints /\ e.status \in Statuses
        BY <4>1 DEF Entry
      <4> QED BY <4>1, <4>2, <4>3
    <3>2. Moves(w, rest) \/ Moves(w, next)
      BY <2>2
    <3> HIDE DEF left, v
    <3>3. rest \in Runs /\ rest.op = "restore" /\ rest.page = left /\ rest.pc = "restore"
      BY <1>1, <2>0, <3>1 DEF RestoreKey, Runs
    <3>4. Carried(rest)
      BY <3>1, <3>3 DEF Carried
    <3> HIDE DEF rest
    <3>5. next \in Runs
      BY <3>1, <3>3 DEF Runs
    <3>6. Carried(next)
      BY <3>1, <3>3 DEF Runs, Carried
    <3>7. run' \in [Workers -> Runs] /\ \A u \in Workers : Carried(run[u])'
      BY <3>2, <3>3, <3>4, <3>5, <3>6, MovesTyped
    <3> QED BY <1>1, <2>2, <3>7 DEF RestoreKey, Typed, TypeOK, bakVars
  <2> QED BY <1>1, <2>1, <2>2 DEF RestoreKey, Skips
<1>2. ASSUME NEW n \in Names, BeginRestore(w, n) PROVE Typed'
  <2> DEFINE keys == files[n].keys
             new  == [Free EXCEPT !.pc = "restore", !.op = "restore", !.page = keys]
  <2>1. keys \subseteq Entry
    BY <1>2 DEF BeginRestore, Typed, TypeOK
  <2> HIDE DEF keys
  <2>2. new \in Runs
    BY <2>1, FreeIsRun DEF Runs
  <2>3. Carried(new)
    BY <2>1 DEF Free, Carried
  <2>4. run' \in [Workers -> Runs] /\ \A v \in Workers : Carried(run[v])'
    BY <1>2, <2>2, <2>3, MovesTyped DEF BeginRestore, keys
  <2> QED BY <1>2, <2>4, BeginsTyped DEF BeginRestore, Typed, TypeOK, keyVars, bakVars
<1> QED BY <1>1, <1>2

LEMMA OtherTyped ==
  ASSUME Typed, (\E i \in Ids : Assign(i)) \/ Unseal \/ Crash \/ UNCHANGED vars
  PROVE  Typed'
<1>1. ASSUME NEW i \in Ids, Assign(i) PROVE Typed'
  BY <1>1, KeyVaultAssumption DEF Assign, Typed, TypeOK, bakVars
<1>2. CASE Unseal
  <2>1. kek' \in 0 .. MaxKek /\ latest' \in 1 .. MaxKek
    BY <1>2, KeyVaultAssumption DEF Unseal, Typed, TypeOK
  <2> QED BY <1>2, <2>1 DEF Unseal, Typed, TypeOK, keyVars, bakVars
<1>3. CASE Crash
  <2>1. run' \in [Workers -> Runs] /\ \A w \in Workers : Carried(run[w])'
    BY <1>3, FreeIsRun DEF Crash
  <2>2. faults' \in 0 .. MaxFaults /\ kek' \in 0 .. MaxKek
    BY <1>3, KeyVaultAssumption DEF Crash, Fault, Typed, TypeOK
  <2> QED BY <1>3, <2>1, <2>2 DEF Crash, Typed, TypeOK, keyVars, bakVars
<1>4. CASE UNCHANGED vars
  BY <1>4 DEF vars, keyVars, bakVars, Typed, TypeOK
<1> QED BY <1>1, <1>2, <1>3, <1>4

LEMMA NextTyped == Typed /\ [Next]_vars => Typed'
<1> SUFFICES ASSUME Typed, [Next]_vars PROVE Typed'
  OBVIOUS
<1>1. ASSUME NEW w \in Workers, Step(w) PROVE Typed'
  BY <1>1, LogStepTyped, CreateTyped, KeyStepTyped, RotationTyped, KekStepTyped,
     WriteBackupTyped, EndBackupTyped, RestoreTyped DEF Step
<1>2. ASSUME NEW w \in Workers, Request(w) PROVE Typed'
  <2>1. CASE \E fp \in Prints : BeginCreate(w, fp)
    BY <2>1, CreateTyped
  <2>2. CASE \E i \in Ids : RequestReveal(w, i) \/ SetStatus(w, i) \/ ReadForProof(w, i)
                            \/ BeginDelete(w, i)
    BY <2>2, KeyStepTyped
  <2>7. CASE \E i \in Ids : BeginRetirement(w, i) \/ \E j \in Ids : BeginPromotion(w, i, j)
    BY <2>7, RotationTyped
  <2>3. CASE BeginRotateKEK(w)
    BY <2>3, KekStepTyped
  <2>4. CASE \E n \in Names, kind \in {"full", "metadata"} : BeginBackup(w, n, kind)
    BY <2>4, WriteBackupTyped
  <2>5. CASE \E n \in Names : BeginVerify(w, n) \/ RemoveArchive(w, n)
    BY <2>5, EndBackupTyped
  <2>6. CASE \E n \in Names : BeginRestore(w, n)
    BY <2>6, RestoreTyped
  <2> QED BY <1>2, <2>1, <2>2, <2>3, <2>4, <2>5, <2>6, <2>7 DEF Request
<1> QED BY <1>1, <1>2, OtherTyped DEF Next

-----------------------------------------------------------------------------
\* TypeOK: every variable of the vault, its log and its backups has its type,
\* for any number of keys, KEKs, requests and faults.
THEOREM KeyVaultTyped == Spec => []TypeOK
<1>1. Typed => TypeOK
  BY DEF Typed
<1> QED BY <1>1, TypedInit, NextTyped, PTL DEF Spec

-----------------------------------------------------------------------------
\* Most steps read, move their own worker on and touch neither keys nor log.
Quiet ==
  /\ UNCHANGED <<rows, inserted, material, kek, latest, log, locked, handed, rotated, late>>
  /\ \A v \in Workers : \/ run'[v] = run[v]
                        \/ /\ run'[v].pc \notin {"append", "open"}
                           /\ run'[v].ver \in {run[v].ver, kek, 0}

LEMMA MovesQuiet ==
  ASSUME Typed, NEW w \in Workers, NEW r, Moves(w, r),
         r.pc \notin {"append", "open"}, r.ver \in {run[w].ver, kek, 0}
  PROVE  \A v \in Workers : \/ run'[v] = run[v]
                            \/ /\ run'[v].pc \notin {"append", "open"}
                               /\ run'[v].ver \in {run[v].ver, kek, 0}
BY DEF Moves, Typed, TypeOK

LEMMA StepQuiet ==
  ASSUME Typed, NEW w \in Workers,
         \/ Rewrap(w) \/ ListKeys(w) \/ ExportKey(w) \/ WriteArchive(w) \/ CompleteBackup(w)
         \/ FailBackup(w) \/ MarkVerified(w) \/ RestoreKey(w) \/ DropBackup(w)
  PROVE  Quiet
<1> DEFINE r == run[w]
<1>0. r \in Runs
  BY DEF Typed, TypeOK
<1>1. CASE Rewrap(w)
  BY <1>0, <1>1, MovesQuiet DEF Rewrap, Quiet, Free, Runs, keyVars
<1>2. CASE ListKeys(w)
  <2> DEFINE p    == IF NewestPage = {} THEN "write" ELSE "export"
             page == {[id |-> i, fp |-> rows[i].fp, status |-> rows[i].status,
                       private |-> rows[i].private] : i \in NewestPage}
             kept == r.todo \cap NewestPage
             new  == [r EXCEPT !.pc = p, !.page = page, !.todo = kept]
  <2>2. p \in {"write", "export"} /\ Moves(w, new)
    BY <1>2 DEF ListKeys
  <2> HIDE DEF p, page, kept
  <2>3. new.pc = p /\ new.ver = r.ver
    BY <1>0 DEF Runs
  <2>4. UNCHANGED <<rows, inserted, material, kek, latest, log, locked, handed, rotated, late>>
    BY <1>2 DEF ListKeys, keyVars
  <2> HIDE DEF new
  <2> QED BY <2>2, <2>3, <2>4, MovesQuiet DEF Quiet
<1>3. CASE ExportKey(w)
  <2>1. PICK k, private : Moves(w, Takes(r, k, private)) \/ Moves(w, [r EXCEPT !.pc = "fail"])
    BY <1>3 DEF ExportKey, Exported, ExportFails
  <2>2. Takes(r, k, private).pc \in {"write", "export"} /\ Takes(r, k, private).ver = r.ver
    BY <1>0 DEF Takes, Runs
  <2>3. [r EXCEPT !.pc = "fail"].pc = "fail" /\ [r EXCEPT !.pc = "fail"].ver = r.ver
    BY <1>0 DEF Runs
  <2>4. UNCHANGED <<rows, inserted, material, kek, latest, log, locked, handed, rotated, late>>
    BY <1>3 DEF ExportKey, keyVars
  <2> QED BY <2>1, <2>2, <2>3, <2>4, MovesQuiet DEF Quiet
<1>4. CASE WriteArchive(w)
  BY <1>0, <1>4, MovesQuiet DEF WriteArchive, Quiet, Runs, keyVars
<1>5. CASE CompleteBackup(w)
  BY <1>5, MovesQuiet DEF CompleteBackup, Logs, Quiet, Free, keyVars
<1>6. CASE FailBackup(w)
  BY <1>6, MovesQuiet DEF FailBackup, Quiet, Free, keyVars
<1>7. CASE MarkVerified(w)
  BY <1>7, MovesQuiet DEF MarkVerified, Logs, Quiet, Free, keyVars
<1>8. CASE RestoreKey(w)
  <2>1. CASE Logs(w, [Free EXCEPT !.op = "restore"]) /\ UNCHANGED rows
    BY <1>8, <2>1, MovesQuiet DEF RestoreKey, Logs, Quiet, Free
  <2>2. ASSUME NEW e, UNCHANGED rows,
               LET rest == [r EXCEPT !.page = @ \ {e}] IN
               \/ Moves(w, rest)
               \/ Moves(w, [rest EXCEPT !.pc = "insert", !.fp = e.fp, !.status = e.status,
                                        !.ver = IF e.pem THEN kek ELSE 0])
        PROVE Quiet
    <3>1. r.pc = "restore"
      BY <1>8 DEF RestoreKey
    <3> QED BY <1>0, <1>8, <2>2, <3>1, MovesQuiet DEF RestoreKey, Quiet, Runs
  <2> QED BY <1>8, <2>1, <2>2 DEF RestoreKey, Skips
<1>9. CASE DropBackup(w)
  BY <1>9, MovesQuiet DEF DropBackup, Quiet, Free, keyVars
<1> QED BY <1>1, <1>2, <1>3, <1>4, <1>5, <1>6, <1>7, <1>8, <1>9

LEMMA RequestQuiet ==
  ASSUME Typed, NEW w \in Workers, Request(w)
  PROVE  Quiet \/ \E i \in Ids : SetStatus(w, i)
<1>1. ASSUME NEW fp \in Prints, BeginCreate(w, fp) PROVE Quiet
  BY <1>1, MovesQuiet DEF BeginCreate, Quiet, Free, keyVars
<1>2. ASSUME NEW i \in Ids, RequestReveal(w, i) PROVE Quiet
  BY <1>2, MovesQuiet DEF RequestReveal, Logs, Quiet, Free, keyVars
<1>3. ASSUME NEW i \in Ids, ReadForProof(w, i) PROVE Quiet
  BY <1>3, MovesQuiet DEF ReadForProof, Quiet, Free, keyVars
<1>4. ASSUME NEW i \in Ids, BeginDelete(w, i) PROVE Quiet
  BY <1>4, MovesQuiet DEF BeginDelete, Quiet, Free, keyVars
<1>10. ASSUME NEW i \in Ids, BeginRetirement(w, i) PROVE Quiet
  BY <1>10, MovesQuiet DEF BeginRetirement, Quiet, Free, keyVars
<1>11. ASSUME NEW i \in Ids, NEW j \in Ids, BeginPromotion(w, i, j) PROVE Quiet
  BY <1>11, MovesQuiet DEF BeginPromotion, Quiet, Free, keyVars
<1>5. CASE BeginRotateKEK(w)
  BY <1>5, MovesQuiet DEF BeginRotateKEK, Quiet, Free, keyVars
<1>6. ASSUME NEW n \in Names, NEW kind \in {"full", "metadata"}, BeginBackup(w, n, kind)
      PROVE Quiet
  BY <1>6, MovesQuiet DEF BeginBackup, Quiet, Free, keyVars
<1>7. ASSUME NEW n \in Names, BeginVerify(w, n) PROVE Quiet
  BY <1>7, MovesQuiet DEF BeginVerify, Quiet, Free, keyVars
<1>8. ASSUME NEW n \in Names, BeginRestore(w, n) PROVE Quiet
  BY <1>8, MovesQuiet DEF BeginRestore, Quiet, Free, keyVars
<1>9. ASSUME NEW n \in Names, RemoveArchive(w, n) PROVE Quiet
  BY <1>9, MovesQuiet DEF RemoveArchive, Quiet, Free, keyVars
<1> QED BY <1>1, <1>2, <1>3, <1>4, <1>5, <1>6, <1>7, <1>8, <1>9, <1>10, <1>11 DEF Request

-----------------------------------------------------------------------------
\* The chain. Whoever is about to append holds the lock and has the head.
ChainSound ==
  /\ ChainLinked
  /\ \A w \in Workers : run[w].pc = "append" => locked = w /\ run[w].head = Len(log)

LEMMA MovesElse ==
  ASSUME Typed, NEW w \in Workers, NEW r, Moves(w, r)
  PROVE  run'[w] = r /\ \A v \in Workers \ {w} : run'[v] = run[v]
BY DEF Moves, Typed, TypeOK

\* What the steps that are not Quiet do to the log, its lock and the worker.
LEMMA LoudSteps ==
  ASSUME Typed, NEW w \in Workers,
         \/ InsertKey(w) \/ Promote(w) \/ Activate(w) \/ Demote(w) \/ DestroyMaterial(w) \/ EraseKey(w)
         \/ ListOld(w) \/ StoreMaterial(w) \/ \E i \in Ids : SetStatus(w, i)
  PROVE  /\ UNCHANGED <<kek, latest, log, locked, handed>>
         /\ \A v \in Workers \ {w} : run'[v] = run[v]
         /\ run'[w].pc \notin {"append", "open"}
         /\ run'[w].ver \in {run[w].ver, 0}
<1> DEFINE r == run[w]
<1>0. r \in Runs
  BY DEF Typed, TypeOK
<1>a. [r EXCEPT !.pc = "restore"].pc = "restore" /\ [r EXCEPT !.pc = "restore"].ver = r.ver
      /\ [r EXCEPT !.pc = "log"].pc = "log" /\ [r EXCEPT !.pc = "log"].ver = r.ver
  BY <1>0 DEF Runs
<1>b. Free.pc = "idle" /\ Free.ver = 0
  BY DEF Free
<1>1. CASE InsertKey(w)
  <2> DEFINE new == [[r EXCEPT !.id = inserted + 1] EXCEPT !.pc = "log"]
  <2>1. new.pc = "log" /\ new.ver = r.ver
    BY <1>0 DEF Runs
  <2>2. Moves(w, [r EXCEPT !.pc = "restore"]) \/ Moves(w, Free) \/ Moves(w, new)
    BY <1>1 DEF InsertKey, Logs
  <2>3. UNCHANGED <<kek, latest, log, locked, handed>>
    BY <1>1 DEF InsertKey
  <2> HIDE DEF new
  <2> QED BY <1>a, <1>b, <2>1, <2>2, <2>3, MovesElse
<1>2. CASE Promote(w)
  BY <1>2, MovesElse DEF Promote, Free
<1>8. CASE Activate(w)
  <2>1. [r EXCEPT !.pc = "demote", !.id = 0].pc = "demote"
        /\ [r EXCEPT !.pc = "demote", !.id = 0].ver = r.ver
    BY <1>0 DEF Runs
  <2>2. Moves(w, [r EXCEPT !.pc = "demote", !.id = 0]) \/ Moves(w, Free)
    BY <1>8 DEF Activate
  <2>3. UNCHANGED <<kek, latest, log, locked, handed>>
    BY <1>8 DEF Activate
  <2> QED BY <1>b, <2>1, <2>2, <2>3, MovesElse
<1>9. CASE Demote(w)
  BY <1>9, MovesElse DEF Demote, Free
<1>3. CASE DestroyMaterial(w)
  BY <1>0, <1>3, MovesElse DEF DestroyMaterial, Runs
<1>4. CASE EraseKey(w)
  <2>1. Moves(w, [r EXCEPT !.pc = "log"]) \/ Moves(w, Free)
    BY <1>4 DEF EraseKey, Logs
  <2>2. UNCHANGED <<kek, latest, log, locked, handed>>
    BY <1>4 DEF EraseKey
  <2> QED BY <1>a, <1>b, <2>1, <2>2, MovesElse
<1>5. CASE ListOld(w)
  <2> DEFINE new == [[Free EXCEPT !.op = "rotate"] EXCEPT !.pc = "log"]
  <2>1. new.pc = "log" /\ new.ver = 0
    BY DEF Free
  <2>2. PICK batch : Moves(w, [r EXCEPT !.pc = "rewrap", !.todo = batch]) \/ Moves(w, new)
    BY <1>5 DEF ListOld, Logs
  <2>3. [r EXCEPT !.pc = "rewrap", !.todo = batch].pc = "rewrap"
        /\ [r EXCEPT !.pc = "rewrap", !.todo = batch].ver = r.ver
    BY <1>0 DEF Runs
  <2>4. UNCHANGED <<kek, latest, log, locked, handed>>
    BY <1>5 DEF ListOld
  <2> HIDE DEF new
  <2> QED BY <2>1, <2>2, <2>3, <2>4, MovesElse
<1>6. CASE StoreMaterial(w)
  <2> DEFINE rest == r.todo \ {r.id}
             p    == IF rest = {} THEN "list" ELSE "rewrap"
             new  == [r EXCEPT !.todo = rest, !.id = 0, !.head = 0, !.pc = p]
  <2>1. Moves(w, new) \/ Moves(w, Free)
    BY <1>6 DEF StoreMaterial
  <2>2. new.pc \in {"list", "rewrap"} /\ new.ver = r.ver
    BY <1>0 DEF Runs
  <2>3. UNCHANGED <<kek, latest, log, locked, handed>>
    BY <1>6 DEF StoreMaterial
  <2> HIDE DEF new
  <2> QED BY <1>b, <2>1, <2>2, <2>3, MovesElse
<1>7. ASSUME NEW i \in Ids, SetStatus(w, i)
      PROVE  /\ UNCHANGED <<kek, latest, log, locked, handed>>
             /\ \A v \in Workers \ {w} : run'[v] = run[v]
             /\ run'[w].pc \notin {"append", "open"}
             /\ run'[w].ver \in {run[w].ver, 0}
  <2> DEFINE new == [[Free EXCEPT !.op = "status", !.id = i] EXCEPT !.pc = "log"]
  <2>1. new.pc = "log" /\ new.ver = 0
    BY DEF Free
  <2>2. Moves(w, new) /\ UNCHANGED <<kek, latest, log, locked, handed>>
    BY <1>7 DEF SetStatus, Logs
  <2> HIDE DEF new
  <2> QED BY <2>1, <2>2, MovesElse
<1> QED BY <1>1, <1>2, <1>3, <1>4, <1>5, <1>6, <1>7, <1>8, <1>9

LEMMA StepKinds ==
  ASSUME Typed, [Next]_vars
  PROVE  \/ Quiet \/ Crash \/ Unseal \/ \E i \in Ids : Assign(i)
         \/ \E w \in Workers :
              \/ ReadHead(w) \/ AppendRecord(w) \/ LogFails(w) \/ HandOver(w)
              \/ InsertKey(w) \/ Promote(w) \/ Activate(w) \/ Demote(w)
              \/ DestroyMaterial(w) \/ EraseKey(w)
              \/ ListOld(w) \/ StoreMaterial(w) \/ \E i \in Ids : SetStatus(w, i)
<1>1. CASE UNCHANGED vars
  BY <1>1 DEF vars, keyVars, bakVars, Quiet
<1>2. ASSUME NEW w \in Workers, Step(w)
      PROVE  \/ Quiet
             \/ ReadHead(w) \/ AppendRecord(w) \/ LogFails(w) \/ HandOver(w)
             \/ InsertKey(w) \/ Promote(w) \/ Activate(w) \/ Demote(w) \/ DestroyMaterial(w) \/ EraseKey(w)
             \/ ListOld(w) \/ StoreMaterial(w)
  BY <1>2, StepQuiet DEF Step
<1> QED BY <1>1, <1>2, RequestQuiet DEF Next

LEMMA ChainInductive ==
  ASSUME Typed, ChainSound, [Next]_vars
  PROVE  ChainSound'
<1> USE DEF ChainSound, ChainLinked
<1> Typed /\ Nobody \notin Workers /\ Len(log) \in Nat /\ DOMAIN log = 1 .. Len(log)
  BY KeyVaultAssumption DEF Typed, TypeOK
<1>1. ASSUME NEW w \in Workers, ReadHead(w) PROVE ChainSound'
  <2>1. run[w] \in Runs
    BY DEF Typed, TypeOK
  <2>2. [run[w] EXCEPT !.pc = "append", !.head = Len(log)].head = Len(log)
    BY <2>1 DEF Runs
  <2>3. run'[w].head = Len(log) /\ \A v \in Workers \ {w} : run'[v] = run[v]
    BY <1>1, <2>2, MovesElse DEF ReadHead
  <2> QED BY <1>1, <2>3 DEF ReadHead
<1>2. ASSUME NEW w \in Workers, AppendRecord(w) PROVE ChainSound'
  <2> DEFINE rec == [what |-> run[w].op, id |-> run[w].id, prev |-> run[w].head]
  <2>1. run[w] \in Runs /\ run[w].head = Len(log) /\ locked = w /\ log' = Append(log, rec)
    BY <1>2 DEF AppendRecord, Typed, TypeOK
  <2>2. \A v \in Workers \ {w} : run'[v] = run[v]
    BY <1>2, MovesElse DEF AppendRecord
  <2>3. run'[w].pc # "append"
    <3>1. CASE run[w].op = "reveal"
      <4> DEFINE new == [run[w] EXCEPT !.pc = "open", !.head = Len(log) + 1]
      <4>1. new.pc = "open"
        BY <2>1 DEF Runs
      <4>2. Moves(w, new)
        BY <1>2, <3>1 DEF AppendRecord
      <4> HIDE DEF new
      <4> QED BY <4>1, <4>2, MovesElse
    <3>2. CASE run[w].op # "reveal"
      BY <1>2, <3>2, MovesElse DEF AppendRecord, Free
    <3> QED BY <3>1, <3>2
  <2>4. \A n \in DOMAIN log' : log'[n].prev = n - 1
    <3>1. DOMAIN log' = 1 .. Len(log) + 1 /\ log'[Len(log) + 1] = rec
          /\ \A n \in 1 .. Len(log) : log'[n] = log[n]
      BY <2>1 DEF Typed, TypeOK
    <3> QED BY <2>1, <3>1
  <2> QED BY <2>1, <2>2, <2>3, <2>4
<1>3. ASSUME NEW w \in Workers, LogFails(w) PROVE ChainSound'
  BY <1>3, MovesElse DEF LogFails, Free
<1>4. ASSUME NEW w \in Workers, HandOver(w) PROVE ChainSound'
  BY <1>4, MovesElse DEF HandOver, Free
<1>5. ASSUME NEW w \in Workers,
             \/ InsertKey(w) \/ Promote(w) \/ Activate(w) \/ Demote(w) \/ DestroyMaterial(w) \/ EraseKey(w)
             \/ ListOld(w) \/ StoreMaterial(w) \/ \E i \in Ids : SetStatus(w, i)
      PROVE ChainSound'
  <2>1. /\ UNCHANGED <<log, locked>> /\ run'[w].pc # "append"
        /\ \A v \in Workers \ {w} : run'[v] = run[v]
    BY <1>5, LoudSteps
  <2> QED BY <2>1
<1>6. CASE Crash
  BY <1>6 DEF Crash, Free
<1>7. CASE Unseal \/ (\E i \in Ids : Assign(i)) \/ Quiet
  BY <1>7 DEF Unseal, Assign, Quiet
<1> QED BY <1>1, <1>2, <1>3, <1>4, <1>5, <1>6, <1>7, StepKinds

\* ChainLinked: concurrent appends, failed ones and crashes leave every record
\* linked to the one before it (audit.go takes the advisory lock to read the head).
THEOREM ChainStaysLinked == Spec => []ChainLinked
<1>1. Init => ChainSound
  BY DEF Init, ChainSound, ChainLinked, Free
<1>2. Typed /\ ChainSound /\ [Next]_vars => ChainSound'
  BY ChainInductive
<1>3. ChainSound => ChainLinked
  BY DEF ChainSound
<1> QED BY <1>1, <1>2, <1>3, TypedInit, NextTyped, PTL DEF Spec

-----------------------------------------------------------------------------
LEMMA RevealInductive ==
  ASSUME Typed, ChainSound, RevealIsRecorded, [Next]_vars
  PROVE  RevealIsRecorded'
<1> USE DEF RevealIsRecorded, Records
<1> Typed /\ Len(log) \in Nat /\ DOMAIN log = 1 .. Len(log)
  BY DEF Typed, TypeOK
<1>1. ASSUME NEW w \in Workers, AppendRecord(w) PROVE RevealIsRecorded'
  <2> DEFINE r   == run[w]
             n   == Len(log) + 1
             rec == [what |-> r.op, id |-> r.id, prev |-> r.head]
             new == [r EXCEPT !.pc = "open", !.head = n]
  <2>0. r \in Runs
    BY DEF Typed, TypeOK
  <2>1. DOMAIN log' = 1 .. n /\ log'[n] = rec /\ \A m \in 1 .. Len(log) : log'[m] = log[m]
    BY <1>1 DEF AppendRecord, Typed, TypeOK
  <2>2. handed' = handed /\ \A v \in Workers \ {w} : run'[v] = run[v]
    BY <1>1, MovesElse DEF AppendRecord
  <2>3. \A h \in handed : Records(h)'
    BY <2>1, <2>2
  <2>4. CASE r.op = "reveal"
    <3>1. new.pc = "open" /\ new.head = n /\ new.id = r.id
      BY <2>0 DEF Runs
    <3>2. run'[w] = new
      BY <1>1, <2>4, MovesElse DEF AppendRecord
    <3>3. n \notin DOMAIN log /\ n \in DOMAIN log' /\ log'[n].what = "reveal"
          /\ log'[n].id = r.id
      BY <2>1, <2>4
    <3> HIDE DEF new, n
    <3>4. [id |-> r.id, rec |-> n] \notin handed
      BY <3>3
    <3>5. \A v \in Workers \ {w} : run[v].pc = "open" => run[v].head # n
      BY <3>3
    <3> QED BY <2>1, <2>2, <2>3, <3>1, <3>2, <3>3, <3>4, <3>5
  <2>5. CASE r.op # "reveal"
    <3>1. run'[w].pc # "open"
      BY <1>1, <2>5, MovesElse DEF AppendRecord, Free
    <3> QED BY <2>1, <2>2, <2>3, <3>1
  <2> QED BY <2>4, <2>5
<1>2. ASSUME NEW w \in Workers, HandOver(w) PROVE RevealIsRecorded'
  <2>1. run'[w].pc = "idle" /\ \A v \in Workers \ {w} : run'[v] = run[v]
    BY <1>2, MovesElse DEF HandOver, Free
  <2>2. log' = log /\ handed' \subseteq handed \cup {[id |-> run[w].id, rec |-> run[w].head]}
    BY <1>2 DEF HandOver
  <2> QED BY <1>2, <2>1, <2>2 DEF HandOver
<1>3. ASSUME NEW w \in Workers,
             \/ InsertKey(w) \/ Promote(w) \/ Activate(w) \/ Demote(w) \/ DestroyMaterial(w) \/ EraseKey(w)
             \/ ListOld(w) \/ StoreMaterial(w) \/ \E i \in Ids : SetStatus(w, i)
      PROVE RevealIsRecorded'
  <2>1. /\ UNCHANGED <<log, handed>> /\ run'[w].pc # "open"
        /\ \A v \in Workers \ {w} : run'[v] = run[v]
    BY <1>3, LoudSteps
  <2> QED BY <2>1
<1>4. ASSUME NEW w \in Workers, ReadHead(w) \/ LogFails(w) PROVE RevealIsRecorded'
  <2>1. UNCHANGED <<log, handed>> /\ \A v \in Workers \ {w} : run'[v] = run[v]
    BY <1>4, MovesElse DEF ReadHead, LogFails
  <2>2. run'[w].pc # "open"
    <3>1. run[w] \in Runs
      BY DEF Typed, TypeOK
    <3>2. [run[w] EXCEPT !.pc = "append", !.head = Len(log)].pc = "append" /\ Free.pc = "idle"
      BY <3>1 DEF Runs, Free
    <3> QED BY <1>4, <3>2, MovesElse DEF ReadHead, LogFails
  <2> QED BY <2>1, <2>2
<1>5. CASE Crash
  BY <1>5 DEF Crash, Free
<1>6. CASE Unseal \/ (\E i \in Ids : Assign(i)) \/ Quiet
  BY <1>6 DEF Unseal, Assign, Quiet
<1> QED BY <1>1, <1>2, <1>3, <1>4, <1>5, <1>6, StepKinds

\* RevealIsRecorded: a private key leaves the vault only behind a record of its own,
\* already in the log, whatever else runs, fails or crashes (keys.go Reveal).
THEOREM RevealsRecorded == Spec => []RevealIsRecorded
<1>1. Init => ChainSound /\ RevealIsRecorded
  BY DEF Init, ChainSound, ChainLinked, RevealIsRecorded, Free
<1>2. Typed /\ ChainSound /\ RevealIsRecorded /\ [Next]_vars => (ChainSound /\ RevealIsRecorded)'
  BY ChainInductive, RevealInductive
<1> QED BY <1>1, <1>2, TypedInit, NextTyped, PTL DEF Spec

-----------------------------------------------------------------------------
\* The keys. No row beyond those inserted, and no request or rotation under a KEK
\* newer than the newest one unsealed.
KeysSound ==
  /\ \A i \in Ids : i > inserted => rows[i] = Gone
  /\ kek \in {0, latest} /\ rotated <= latest
  /\ \A w \in Workers : run[w].ver <= latest
  /\ PrivateMeansMaterial
  /\ RotatedMeansRewrapped

LEMMA StoresSound ==
  ASSUME Typed, KeysSound, NEW i \in Ids, NEW v \in 0 .. MaxKek, Stores(i, v),
         UNCHANGED <<latest, rotated>>
  PROVE  /\ RotatedMeansRewrapped' /\ material'[i] = v
         /\ \A j \in Ids \ {i} : material'[j] = material[j]
<1>1. material \in [Ids -> 0 .. MaxKek] /\ rotated \in Nat /\ latest \in Nat /\ v \in Nat
  BY DEF Typed, TypeOK
<1>2. rotated <= latest /\ RotatedMeansRewrapped
  BY DEF KeysSound
<1>3. material'[i] = v /\ \A j \in Ids \ {i} : material'[j] = material[j]
  BY <1>1 DEF Stores
<1>4. ASSUME NEW j \in Ids, material'[j] \in 1 .. rotated - 1 PROVE j \in late'
  <2>1. CASE j = i
    BY <1>1, <1>2, <1>3, <1>4, <2>1 DEF Stores
  <2>2. CASE j # i
    BY <1>1, <1>2, <1>3, <1>4, <2>2 DEF Stores, RotatedMeansRewrapped
  <2> QED BY <2>1, <2>2
<1> QED BY <1>3, <1>4 DEF RotatedMeansRewrapped

LEMMA KeysInductive ==
  ASSUME Typed, KeysSound, [Next]_vars
  PROVE  KeysSound'
<1> Typed'
  BY NextTyped
<1> inserted \in Nat /\ latest \in Nat /\ kek \in Nat /\ rotated \in Nat
  BY KeyVaultAssumption DEF Typed, TypeOK
<1> \A w \in Workers : run[w] \in Runs /\ Carried(run[w])
  BY DEF Typed, TypeOK
<1>1. CASE Quiet
  <2>1. \A w \in Workers : run[w].ver \in Nat
    BY DEF Runs
  <2>2. \A w \in Workers : run'[w].ver <= latest
    BY <1>1, <2>1 DEF Quiet, KeysSound
  <2> QED BY <1>1, <2>2 DEF Quiet, KeysSound, PrivateMeansMaterial, RotatedMeansRewrapped
<1>2. ASSUME NEW w \in Workers, ReadHead(w) \/ AppendRecord(w) \/ LogFails(w) \/ HandOver(w)
      PROVE KeysSound'
  <2>1. UNCHANGED <<rows, inserted, material, kek, latest, rotated, late>>
    BY <1>2 DEF ReadHead, AppendRecord, LogFails, HandOver, keyVars
  <2>2. \A v \in Workers : run'[v].ver <= latest
    <3>1. PICK r : Moves(w, r) /\ r.ver \in {0, run[w].ver}
      <4>1. \A head : [run[w] EXCEPT !.pc = "append", !.head = head].ver = run[w].ver
                      /\ [run[w] EXCEPT !.pc = "open", !.head = head].ver = run[w].ver
        BY DEF Runs
      <4>2. Free.ver = 0
        BY DEF Free
      <4> QED BY <1>2, <4>1, <4>2 DEF ReadHead, AppendRecord, LogFails, HandOver
    <3> QED BY <3>1, MovesElse DEF KeysSound
  <2> QED BY <2>1, <2>2 DEF KeysSound, PrivateMeansMaterial, RotatedMeansRewrapped
<1>3. ASSUME NEW w \in Workers,
             \/ InsertKey(w) \/ Promote(w) \/ Activate(w) \/ Demote(w) \/ DestroyMaterial(w) \/ EraseKey(w)
             \/ ListOld(w) \/ StoreMaterial(w) \/ \E i \in Ids : SetStatus(w, i)
      PROVE KeysSound'
  <2> DEFINE r == run[w]
  <2> r \in Runs
    OBVIOUS
  <2>1. UNCHANGED <<kek, latest>> /\ \A v \in Workers : run'[v].ver <= latest
    BY <1>3, LoudSteps DEF KeysSound
  <2>2. CASE InsertKey(w)
    <3> DEFINE i == inserted + 1
    <3>1. r.fp \in Prints /\ r.ver \in 0 .. MaxKek
      BY <2>2 DEF InsertKey, Carried, Runs
    <3>2. CASE RowOf(r.fp) # {}
      BY <2>1, <2>2, <3>2 DEF InsertKey, KeysSound, PrivateMeansMaterial, RotatedMeansRewrapped
    <3>3. CASE RowOf(r.fp) = {}
      <4>1. /\ inserted < MaxRows /\ i \in Ids /\ inserted' = i /\ Stores(i, r.ver)
            /\ rows' = [rows EXCEPT ![i] =
                          [fp |-> r.fp, status |-> r.status, private |-> r.ver > 0]]
            /\ UNCHANGED rotated
        BY <2>2, <3>3, KeyVaultAssumption DEF InsertKey, Ids
      <4>2. RotatedMeansRewrapped' /\ material'[i] = r.ver
            /\ \A j \in Ids \ {i} : material'[j] = material[j]
        BY <2>1, <3>1, <4>1, StoresSound
      <4>3. \A j \in Ids \ {i} : rows'[j] = rows[j]
        BY <4>1 DEF Typed, TypeOK
      <4>4. rows'[i].private => material'[i] > 0
        BY <4>1, <4>2 DEF Typed, TypeOK
      <4> HIDE DEF r
      <4>5. PrivateMeansMaterial'
        BY <4>2, <4>3, <4>4 DEF KeysSound, PrivateMeansMaterial
      <4>6. \A j \in Ids : j > inserted' => rows'[j] = Gone
        BY <4>1, <4>3 DEF KeysSound, Ids
      <4> QED BY <2>1, <4>1, <4>2, <4>5, <4>6 DEF KeysSound
    <3> QED BY <3>2, <3>3
  <2>3. ASSUME NEW i \in Ids, NEW s, Exists(i), rows' = [rows EXCEPT ![i].status = s],
               UNCHANGED <<inserted, material, rotated, late>>
        PROVE KeysSound'
    <3>1. rows[i] \in [fp: Prints, status: Statuses, private: BOOLEAN]
      BY <2>3 DEF Exists, Typed, TypeOK, KeyRow
    <3>2. rows'[i].private = rows[i].private /\ \A j \in Ids \ {i} : rows'[j] = rows[j]
      BY <2>3, <3>1 DEF Typed, TypeOK
    <3>3. PrivateMeansMaterial'
      BY <2>3, <3>2 DEF KeysSound, PrivateMeansMaterial
    <3>4. ~(i > inserted)
      BY <2>3 DEF KeysSound, Exists
    <3>5. \A j \in Ids : j > inserted' => rows'[j] = Gone
      BY <2>3, <3>2, <3>4 DEF KeysSound
    <3> QED BY <2>1, <2>3, <3>3, <3>5 DEF KeysSound, RotatedMeansRewrapped
  <2>4. ASSUME NEW i \in Ids, SetStatus(w, i) PROVE KeysSound'
    BY <2>3, <2>4 DEF SetStatus
  <2>5. CASE Promote(w)
    <3>1. r.id \in Ids
      BY <2>5 DEF Promote, Carried
    <3>2. CASE r.status = "pending" /\ Exists(r.id)
      BY <2>3, <2>5, <3>1, <3>2 DEF Promote
    <3>3. CASE ~(r.status = "pending" /\ Exists(r.id))
      BY <2>1, <2>5, <3>3 DEF Promote, KeysSound, PrivateMeansMaterial, RotatedMeansRewrapped
    <3> QED BY <3>2, <3>3
  <2>11. CASE Activate(w) \/ Demote(w)
    <3>1. /\ UNCHANGED <<inserted, material, rotated, late>>
          /\ \A i \in Ids : rows'[i].private = rows[i].private
                            /\ (rows[i] = Gone => rows'[i] = Gone)
      BY <2>11, RotationWrites
    <3> QED BY <2>1, <3>1 DEF KeysSound, PrivateMeansMaterial, RotatedMeansRewrapped
  <2>6. ASSUME NEW i \in Ids, Stores(i, 0), UNCHANGED <<inserted, rotated>>,
               ~rows'[i].private, i > inserted => rows'[i] = Gone,
               \A j \in Ids \ {i} : rows'[j] = rows[j]
        PROVE KeysSound'
    <3>1. 0 \in 0 .. MaxKek
      BY KeyVaultAssumption
    <3>2. RotatedMeansRewrapped' /\ \A j \in Ids \ {i} : material'[j] = material[j]
      BY <2>1, <2>6, <3>1, StoresSound
    <3>3. PrivateMeansMaterial'
      BY <2>6, <3>2 DEF KeysSound, PrivateMeansMaterial
    <3> QED BY <2>1, <2>6, <3>2, <3>3 DEF KeysSound
  <2>7. CASE DestroyMaterial(w)
    <3>1. r.id \in Ids /\ Stores(r.id, 0) /\ UNCHANGED <<inserted, rotated>>
      BY <2>7 DEF DestroyMaterial, Carried
    <3>2. CASE Exists(r.id)
      <4>1. rows[r.id] \in [fp: Prints, status: Statuses, private: BOOLEAN]
        BY <3>1, <3>2 DEF Exists, Typed, TypeOK, KeyRow
      <4>2. ~rows'[r.id].private /\ \A j \in Ids \ {r.id} : rows'[j] = rows[j]
        BY <2>7, <3>1, <3>2, <4>1 DEF DestroyMaterial, Typed, TypeOK
      <4>3. ~(r.id > inserted)
        BY <3>1, <3>2 DEF KeysSound, Exists
      <4> QED BY <2>6, <3>1, <4>2, <4>3
    <3>3. CASE ~Exists(r.id)
      <4>1. rows' = rows /\ rows[r.id] = Gone
        BY <2>7, <3>3 DEF DestroyMaterial, Exists
      <4> QED BY <2>6, <3>1, <4>1 DEF Gone
    <3> QED BY <3>2, <3>3
  <2>8. CASE EraseKey(w)
    <3>1. r.id \in Ids /\ Stores(r.id, 0) /\ UNCHANGED <<inserted, rotated>>
      BY <2>8 DEF EraseKey, Carried
    <3>2. rows'[r.id] = Gone /\ \A j \in Ids \ {r.id} : rows'[j] = rows[j]
      BY <2>8, <3>1 DEF EraseKey, Typed, TypeOK
    <3> QED BY <2>6, <3>1, <3>2 DEF Gone
  <2>9. CASE StoreMaterial(w)
    <3>1. r.id \in Ids /\ r.head \in 1 .. MaxKek /\ r.head \in 0 .. MaxKek
      BY <2>9 DEF StoreMaterial, Carried
    <3>2. UNCHANGED <<rows, inserted, rotated>>
      BY <2>9 DEF StoreMaterial
    <3>3. CASE Stores(r.id, r.head)
      <4>1. RotatedMeansRewrapped' /\ material'[r.id] = r.head
            /\ \A j \in Ids \ {r.id} : material'[j] = material[j]
        BY <2>1, <3>1, <3>2, <3>3, StoresSound
      <4>2. PrivateMeansMaterial'
        BY <3>1, <3>2, <4>1 DEF KeysSound, PrivateMeansMaterial
      <4> QED BY <2>1, <3>2, <4>1, <4>2 DEF KeysSound
    <3>4. CASE UNCHANGED <<material, late>>
      BY <2>1, <3>2, <3>4 DEF KeysSound, PrivateMeansMaterial, RotatedMeansRewrapped
    <3> QED BY <2>9, <3>3, <3>4 DEF StoreMaterial
  <2>10. CASE ListOld(w)
    <3>1. UNCHANGED <<rows, inserted, material, late>>
      BY <2>10 DEF ListOld, keyVars
    <3>2. r.ver \in Nat /\ r.ver <= latest
      BY DEF Runs, KeysSound
    <3>3. rotated' = rotated \/ (Old(r.ver) = {} /\ rotated' \in {rotated, r.ver})
      <4>1. Cardinality({}) = 0 /\ BatchSize # 0
        BY FS_EmptySet, KeyVaultAssumption
      <4> QED BY <2>10, <4>1 DEF ListOld
    <3>4. rotated' <= latest
      BY <3>2, <3>3 DEF KeysSound
    <3>5. RotatedMeansRewrapped'
      <4>1. CASE rotated' = rotated
        BY <3>1, <4>1 DEF KeysSound, RotatedMeansRewrapped
      <4>2. CASE Old(r.ver) = {} /\ rotated' = r.ver
        BY <3>1, <4>2 DEF Old, RotatedMeansRewrapped
      <4> QED BY <3>3, <4>1, <4>2
    <3> QED BY <2>1, <3>1, <3>4, <3>5 DEF KeysSound, PrivateMeansMaterial
  <2> QED BY <1>3, <2>2, <2>4, <2>5, <2>7, <2>8, <2>9, <2>10, <2>11
<1>4. CASE Crash
  BY <1>4 DEF Crash, Free, keyVars, KeysSound, PrivateMeansMaterial, RotatedMeansRewrapped
<1>5. CASE Unseal
  <2>1. latest' >= latest /\ kek' = latest'
    BY <1>5 DEF Unseal, KeysSound
  <2>2. \A w \in Workers : run[w].ver \in Nat
    BY DEF Runs
  <2> QED BY <1>5, <2>1, <2>2
          DEF Unseal, keyVars, KeysSound, PrivateMeansMaterial, RotatedMeansRewrapped
<1>6. ASSUME NEW i \in Ids, Assign(i) PROVE KeysSound'
  BY <1>6 DEF Assign, KeysSound, PrivateMeansMaterial, RotatedMeansRewrapped
<1> QED BY <1>1, <1>2, <1>3, <1>4, <1>5, <1>6, StepKinds

LEMMA KeysInit == Init => KeysSound
<1> SUFFICES ASSUME Init PROVE KeysSound
  OBVIOUS
<1>1. \A i \in Ids : i > inserted => rows[i] = Gone
  BY DEF Init
<1>2. PrivateMeansMaterial
  <2> SUFFICES ASSUME NEW i \in Ids, rows[i].private PROVE material[i] > 0
    BY DEF PrivateMeansMaterial
  <2>1. i <= inserted
    BY <1>1, KeyVaultAssumption DEF Init, Ids, Gone
  <2> QED BY <2>1 DEF Init
<1>3. RotatedMeansRewrapped
  BY DEF Init, RotatedMeansRewrapped
<1> QED BY <1>1, <1>2, <1>3 DEF Init, KeysSound, Free

\* PrivateMeansMaterial: a row that claims a private half has its material, through
\* every race of create, restore, rewrap and delete (store/keys.go Create,
\* DestroyMaterial, StoreMaterial).
THEOREM PrivateHasMaterial == Spec => []PrivateMeansMaterial
<1>1. KeysSound => PrivateMeansMaterial
  BY DEF KeysSound
<1> QED BY <1>1, KeysInit, KeysInductive, TypedInit, NextTyped, PTL DEF Spec

\* RotatedMeansRewrapped: after RotateKEK returns, only what was sealed before and
\* stored after the newer KEK was unsealed is still under an older one.
THEOREM RotationRewraps == Spec => []RotatedMeansRewrapped
<1>1. KeysSound => RotatedMeansRewrapped
  BY DEF KeysSound
<1> QED BY <1>1, KeysInit, KeysInductive, TypedInit, NextTyped, PTL DEF Spec

-----------------------------------------------------------------------------
LEMMA RevokedStep ==
  ASSUME Typed, KeysSound, [Next]_vars, NEW i \in Ids,
         rows[i].status = "revoked", rows'[i].status \notin {"revoked", "destroyed", "none"}
  PROVE  Ordered(i) \/ Promoting(i) \/ Rotating(i)
<1>0. ops \in Nat /\ rows \in [Ids -> KeyRow] /\ \A w \in Workers : Carried(run[w])
  BY DEF Typed, TypeOK
<1>1. CASE UNCHANGED rows
  BY <1>1
<1>2. ASSUME NEW w \in Workers, InsertKey(w) PROVE UNCHANGED rows
  <2> SUFFICES ASSUME inserted < MaxRows,
                      rows' = [rows EXCEPT ![inserted + 1] =
                        [fp |-> run[w].fp, status |-> run[w].status,
                         private |-> run[w].ver > 0]]
               PROVE  FALSE
    BY <1>2 DEF InsertKey
  <2>1. inserted \in Nat /\ inserted + 1 > inserted
    BY KeyVaultAssumption DEF Typed, TypeOK
  <2>2. i # inserted + 1
    BY <2>1 DEF KeysSound, Gone
  <2> QED BY <1>0, <2>2
<1>3. ASSUME NEW w \in Workers, Promote(w) PROVE UNCHANGED rows \/ Promoting(i)
  BY <1>0, <1>3 DEF Promote, Promoting
<1>4. ASSUME NEW w \in Workers, DestroyMaterial(w) PROVE UNCHANGED rows
  <2>1. run[w].id \in Ids
    BY <1>0, <1>4 DEF DestroyMaterial, Carried
  <2>2. ASSUME i = run[w].id, Exists(i) PROVE FALSE
    <3>1. rows[i] \in [fp: Prints, status: Statuses, private: BOOLEAN]
      BY <1>0, <2>2 DEF Exists, KeyRow
    <3> QED BY <1>0, <1>4, <2>2, <3>1 DEF DestroyMaterial
  <2> QED BY <1>0, <1>4, <2>1, <2>2 DEF DestroyMaterial
<1>5. ASSUME NEW w \in Workers, EraseKey(w) PROVE i # run[w].id /\ rows'[i] = rows[i]
  BY <1>0, <1>5 DEF EraseKey, Gone
<1>6. ASSUME NEW w \in Workers, NEW j \in Ids, SetStatus(w, j)
      PROVE  rows'[i] = rows[i] \/ Ordered(i)
  <2>1. CASE i = j
    <3>1. run[w].pc = "idle" /\ run'[w].op = "status" /\ run'[w].id = i
      BY <1>6, <2>1 DEF SetStatus, Begins, Logs, Moves, Free, Typed, TypeOK
    <3> QED BY <3>1 DEF Ordered
  <2>2. CASE i # j
    BY <1>0, <1>6, <2>2 DEF SetStatus
  <2> QED BY <2>1, <2>2
<1>9. ASSUME NEW w \in Workers, Activate(w) \/ Demote(w)
      PROVE  rows'[i] = rows[i] \/ Rotating(i)
  BY <1>9, RotationWrites
<1>7. ASSUME NEW w \in Workers,
             ReadHead(w) \/ AppendRecord(w) \/ LogFails(w) \/ HandOver(w) \/ ListOld(w)
             \/ StoreMaterial(w)
      PROVE UNCHANGED rows
  BY <1>7 DEF ReadHead, AppendRecord, LogFails, HandOver, ListOld, StoreMaterial, keyVars
<1>8. CASE Quiet \/ Crash \/ Unseal \/ \E j \in Ids : Assign(j)
  BY <1>1, <1>8 DEF Quiet, Crash, Unseal, Assign, keyVars
<1>10. \A w \in Workers : EraseKey(w) => rows'[i] = rows[i]
  BY <1>5
<1> QED BY <1>1, <1>2, <1>3, <1>4, <1>6, <1>7, <1>8, <1>9, <1>10, StepKinds

\* RevokedStaysRevoked: no restore, creation, rewrap or deletion makes a revoked key
\* usable; an operator's order for that key does, a deployment that read it pending,
\* and a rotation of it (keys.go SetStatus, backup.go Restore, deploy.go:284,
\* rotation.go:826, 829 and 944).
THEOREM RevocationsHold == Spec => RevokedStaysRevoked
<1>1. Typed /\ KeysSound /\ [Next]_vars =>
        [\A i \in Ids :
           rows[i].status = "revoked" /\ rows'[i].status \notin {"revoked", "destroyed", "none"} =>
             Ordered(i) \/ Promoting(i) \/ Rotating(i)]_vars
  BY RevokedStep
<1> QED BY <1>1, KeysInit, KeysInductive, TypedInit, NextTyped, PTL
        DEF Spec, RevokedStaysRevoked
-----------------------------------------------------------------------------
\* Backups. A request that makes an archive alone makes it, of keys it listed; until
\* the archive is removed its row and its file stay.
Making(r) == r.pc \in {"page", "export", "write", "complete", "fail"}

InArchive(keys, fp)  == \E e \in keys : e.fp = fp /\ e.pem
OnPage(page, i, fp) == \E k \in page : k.id = i /\ k.fp = fp /\ k.private

\* Every key that has kept its private half is still to be exported, or exported.
Carries(r) == \A i \in r.todo :
  /\ i <= inserted
  /\ r.status = "full" /\ rows[i].private =>
       /\ r.pc = "export" => OnPage(r.page, i, rows[i].fp) \/ InArchive(r.out, rows[i].fp)
       /\ r.pc = "write" => InArchive(r.out, rows[i].fp)
       /\ r.pc = "complete" =>
            r.name \in removed \/ InArchive(files[r.name].keys, rows[i].fp)

Started(n, kind) ==
  backups[n] # NoBackup /\ backups[n].kind = kind /\ backups[n].must = {}

MakerInv(w) ==
  LET n == run[w].name IN
  /\ Making(run[w]) => Carries(run[w]) /\ (n \in removed \/ Started(n, run[w].status))
  /\ run[w].pc = "droprow" => n \in removed
  /\ run[w].pc \in {"mark", "complete"} => n \in removed \/ files[n] # NoFile

OneMaker == \A w, v \in Workers :
  Making(run[w]) /\ Making(run[v]) /\ run[w].name = run[v].name => w = v

ArchiveSound(n) == n \notin removed =>
  /\ backups[n].state \in {"completed", "verified"} => files[n] # NoFile
  /\ backups[n].kind = "full" =>
       \A fp \in backups[n].must : InArchive(files[n].keys, fp)

BackupsSound ==
  /\ \A w \in Workers : MakerInv(w)
  /\ OneMaker
  /\ \A n \in Names : ArchiveSound(n)

\* A key that has a private half had it before, under the same fingerprint.
LEMMA RowsKept ==
  ASSUME Typed, KeysSound, [Next]_vars
  PROVE  /\ inserted \in Nat /\ inserted' >= inserted
         /\ \A i \in Ids : i <= inserted /\ rows'[i].private =>
              rows[i].private /\ rows'[i].fp = rows[i].fp
<1>0. /\ inserted \in Nat /\ rows \in [Ids -> KeyRow]
      /\ \A w \in Workers : Carried(run[w])
  BY KeyVaultAssumption DEF Typed, TypeOK
<1>1. CASE UNCHANGED <<rows, inserted>>
  BY <1>0, <1>1
<1>2. ASSUME NEW w \in Workers, InsertKey(w),
             inserted' = inserted + 1,
             rows' = [rows EXCEPT ![inserted + 1] =
               [fp |-> run[w].fp, status |-> run[w].status, private |-> run[w].ver > 0]]
      PROVE  inserted' >= inserted /\ \A i \in Ids : i <= inserted => rows'[i] = rows[i]
  BY <1>0, <1>2
<1>3. ASSUME NEW j \in Ids, NEW s, Exists(j), rows' = [rows EXCEPT ![j].status = s]
      PROVE  \A i \in Ids : rows'[i].private = rows[i].private /\ rows'[i].fp = rows[i].fp
  <2>1. rows[j] \in [fp: Prints, status: Statuses, private: BOOLEAN]
    BY <1>0, <1>3 DEF Exists, KeyRow
  <2>2. rows'[j] = [rows[j] EXCEPT !.status = s] /\ \A i \in Ids \ {j} : rows'[i] = rows[i]
    BY <1>0, <1>3
  <2> QED BY <2>1, <2>2
<1>4. ASSUME NEW w \in Workers, DestroyMaterial(w) \/ EraseKey(w)
      PROVE  /\ UNCHANGED inserted
             /\ \A i \in Ids : rows'[i] = rows[i] \/ ~rows'[i].private
  <2>1. run[w].id \in Ids
    BY <1>0, <1>4 DEF DestroyMaterial, EraseKey, Carried
  <2>2. CASE EraseKey(w)
    BY <1>0, <2>1, <2>2 DEF EraseKey, Gone
  <2>3. CASE DestroyMaterial(w) /\ Exists(run[w].id)
    <3>1. rows[run[w].id] \in [fp: Prints, status: Statuses, private: BOOLEAN]
      BY <1>0, <2>1, <2>3 DEF Exists, KeyRow
    <3> QED BY <1>0, <2>1, <2>3, <3>1 DEF DestroyMaterial
  <2>4. CASE DestroyMaterial(w) /\ ~Exists(run[w].id)
    BY <2>4 DEF DestroyMaterial
  <2> QED BY <1>4, <2>2, <2>3, <2>4
<1>5. ASSUME NEW w \in Workers, InsertKey(w)
      PROVE  inserted' >= inserted /\ \A i \in Ids : i <= inserted => rows'[i] = rows[i]
  BY <1>0, <1>2, <1>5 DEF InsertKey
<1>6. ASSUME NEW w \in Workers, Promote(w)
      PROVE  /\ UNCHANGED inserted
             /\ \A i \in Ids : rows'[i].private = rows[i].private /\ rows'[i].fp = rows[i].fp
  BY <1>0, <1>3, <1>6 DEF Promote, Carried
<1>10. ASSUME NEW w \in Workers, Activate(w) \/ Demote(w)
      PROVE  /\ UNCHANGED inserted
             /\ \A i \in Ids : rows'[i].private = rows[i].private /\ rows'[i].fp = rows[i].fp
  BY <1>10, RotationWrites
<1>7. ASSUME NEW w \in Workers, NEW j \in Ids, SetStatus(w, j)
      PROVE  /\ UNCHANGED inserted
             /\ \A i \in Ids : rows'[i].private = rows[i].private /\ rows'[i].fp = rows[i].fp
  BY <1>3, <1>7 DEF SetStatus
<1>8. ASSUME NEW w \in Workers,
             ReadHead(w) \/ AppendRecord(w) \/ LogFails(w) \/ HandOver(w) \/ ListOld(w)
             \/ StoreMaterial(w)
      PROVE  UNCHANGED <<rows, inserted>>
  BY <1>8 DEF ReadHead, AppendRecord, LogFails, HandOver, ListOld, StoreMaterial, keyVars
<1>9. CASE Quiet \/ Crash \/ Unseal \/ \E j \in Ids : Assign(j)
  BY <1>1, <1>9 DEF Quiet, Crash, Unseal, Assign, keyVars
<1> QED
  <2>1. ASSUME NEW w \in Workers,
               \/ ReadHead(w) \/ AppendRecord(w) \/ LogFails(w) \/ HandOver(w)
               \/ InsertKey(w) \/ Promote(w) \/ Activate(w) \/ Demote(w)
              \/ DestroyMaterial(w) \/ EraseKey(w)
               \/ ListOld(w) \/ StoreMaterial(w) \/ \E i \in Ids : SetStatus(w, i)
        PROVE  /\ inserted' >= inserted
               /\ \A i \in Ids : i <= inserted /\ rows'[i].private =>
                    rows[i].private /\ rows'[i].fp = rows[i].fp
    BY <1>0, <1>1, <1>4, <1>5, <1>6, <1>7, <1>8, <1>10, <2>1
  <2> QED BY <1>0, <1>9, <2>1, StepKinds

\* The steps that concern no backup: none of its requests moves.
BackupLabels == {"page", "export", "write", "complete", "fail", "mark", "droprow"}

Aside ==
  /\ UNCHANGED bakVars
  /\ \A v \in Workers : run'[v] = run[v] \/ run'[v].pc \notin BackupLabels

BackupStep(w) ==
  \/ \E n \in Names : \/ \E kind \in {"full", "metadata"} : BeginBackup(w, n, kind)
                      \/ BeginVerify(w, n) \/ RemoveArchive(w, n)
  \/ ListKeys(w) \/ ExportKey(w) \/ WriteArchive(w) \/ CompleteBackup(w) \/ FailBackup(w)
  \/ MarkVerified(w) \/ DropBackup(w)

LEMMA MovesAside ==
  ASSUME Typed, NEW w \in Workers, NEW r, Moves(w, r), r.pc \notin BackupLabels,
         UNCHANGED bakVars
  PROVE  Aside
BY MovesElse DEF Aside

LEMMA StepAside ==
  ASSUME Typed, [Next]_vars
  PROVE  Aside \/ \E w \in Workers : BackupStep(w)
<1>0. \A w \in Workers : run[w] \in Runs
  BY DEF Typed, TypeOK
<1> USE DEF bakVars, Logs
<1>1. ASSUME NEW w \in Workers, ReadHead(w) \/ AppendRecord(w) \/ LogFails(w) \/ HandOver(w)
      PROVE  Aside
  BY <1>0, <1>1, MovesAside
     DEF ReadHead, AppendRecord, LogFails, HandOver, Runs, Free, BackupLabels
<1>2. ASSUME NEW w \in Workers, InsertKey(w) PROVE Aside
  BY <1>0, <1>2, MovesAside DEF InsertKey, Runs, Free, BackupLabels
<1>3. ASSUME NEW w \in Workers,
             Promote(w) \/ Activate(w) \/ Demote(w) \/ DestroyMaterial(w) \/ EraseKey(w)
      PROVE  Aside
  BY <1>0, <1>3, MovesAside
     DEF Promote, Activate, Demote, DestroyMaterial, EraseKey, Runs, Free, BackupLabels
<1>4. ASSUME NEW w \in Workers, ListOld(w) PROVE Aside
  BY <1>0, <1>4, MovesAside DEF ListOld, Runs, Free, BackupLabels
<1>5. ASSUME NEW w \in Workers, Rewrap(w) \/ StoreMaterial(w) PROVE Aside
  BY <1>0, <1>5, MovesAside DEF Rewrap, StoreMaterial, Runs, Free, BackupLabels
<1>6. ASSUME NEW w \in Workers, RestoreKey(w) PROVE Aside
  <2> DEFINE r == run[w]
  <2>1. r.pc = "restore" /\ UNCHANGED bakVars
    BY <1>6 DEF RestoreKey
  <2>2. CASE Moves(w, [[Free EXCEPT !.op = "restore"] EXCEPT !.pc = "log"])
    BY <2>1, <2>2, MovesAside DEF Free, BackupLabels
  <2>3. ASSUME NEW e, LET rest == [r EXCEPT !.page = @ \ {e}] IN
                      \/ Moves(w, rest)
                      \/ Moves(w, [rest EXCEPT !.pc = "insert", !.fp = e.fp,
                                     !.status = e.status, !.ver = IF e.pem THEN kek ELSE 0])
        PROVE  Aside
    BY <1>0, <2>1, <2>3, MovesAside DEF Runs, BackupLabels
  <2> QED BY <1>6, <2>2, <2>3 DEF RestoreKey
<1>7. ASSUME NEW w \in Workers, NEW fp \in Prints, BeginCreate(w, fp) PROVE Aside
  BY <1>7, MovesAside DEF BeginCreate, Free, BackupLabels
<1>8. ASSUME NEW w \in Workers, NEW i \in Ids,
             RequestReveal(w, i) \/ SetStatus(w, i) \/ ReadForProof(w, i) \/ BeginDelete(w, i)
      PROVE  Aside
  BY <1>8, MovesAside
     DEF RequestReveal, SetStatus, ReadForProof, BeginDelete, Free, BackupLabels
<1>15. ASSUME NEW w \in Workers, NEW i \in Ids,
              BeginRetirement(w, i) \/ \E j \in Ids : BeginPromotion(w, i, j)
      PROVE  Aside
  BY <1>15, MovesAside DEF BeginRetirement, BeginPromotion, Free, BackupLabels
<1>9. ASSUME NEW w \in Workers, BeginRotateKEK(w) PROVE Aside
  BY <1>9, MovesAside DEF BeginRotateKEK, Free, BackupLabels
<1>10. ASSUME NEW w \in Workers, NEW n \in Names, BeginRestore(w, n) PROVE Aside
  BY <1>10, MovesAside DEF BeginRestore, Free, BackupLabels
<1>11. CASE Crash
  BY <1>11 DEF Crash, Aside, Free, BackupLabels
<1>12. CASE Unseal \/ (\E i \in Ids : Assign(i)) \/ UNCHANGED vars
  BY <1>12 DEF Unseal, Assign, Aside, vars
<1>13. ASSUME NEW w \in Workers, Step(w) PROVE Aside \/ BackupStep(w)
  BY <1>1, <1>2, <1>3, <1>4, <1>5, <1>6, <1>13 DEF Step, BackupStep
<1>14. ASSUME NEW w \in Workers, Request(w) PROVE Aside \/ BackupStep(w)
  BY <1>7, <1>8, <1>9, <1>10, <1>14, <1>15 DEF Request, BackupStep
<1> QED
  BY <1>11, <1>12, <1>13, <1>14 DEF Next

\* The row and the file of a name, as a request that makes it needs them.
Kept(n) == n \in removed' \/
  /\ files'[n] = files[n]
  /\ backups[n] # NoBackup =>
       /\ backups'[n] # NoBackup /\ backups'[n].kind = backups[n].kind
       /\ backups'[n].must = backups[n].must

FileStays(n) == n \in removed' \/ files[n] = NoFile \/ files'[n] # NoFile

LEMMA MakerKept ==
  ASSUME Typed, KeysSound, BackupsSound, [Next]_vars, NEW v \in Workers, run'[v] = run[v],
         removed \subseteq removed',
         Making(run[v]) => Kept(run[v].name),
         run[v].pc = "mark" => FileStays(run[v].name)
  PROVE  MakerInv(v)'
<1> DEFINE r == run[v]
           n == r.name
<1>0. r \in Runs /\ MakerInv(v)
  BY DEF Typed, TypeOK, BackupsSound
<1>1. ASSUME Making(r) PROVE Carries(r)'
  <2>1. Carries(r) /\ Kept(n)
    BY <1>0, <1>1 DEF MakerInv
  <2> SUFFICES ASSUME NEW i \in r.todo
               PROVE  /\ i <= inserted'
                      /\ r.status = "full" /\ rows'[i].private =>
                          /\ r.pc = "export" => OnPage(r.page, i, rows'[i].fp)
                                                \/ InArchive(r.out, rows'[i].fp)
                          /\ r.pc = "write" => InArchive(r.out, rows'[i].fp)
                          /\ r.pc = "complete" =>
                               n \in removed' \/ InArchive(files'[n].keys, rows'[i].fp)
    BY DEF Carries, OnPage, InArchive
  <2>2. i \in Ids /\ i <= inserted
    BY <1>0, <2>1 DEF Carries, Runs
  <2>3. /\ i <= inserted'
        /\ rows'[i].private => rows[i].private /\ rows'[i].fp = rows[i].fp
    <3>1. inserted \in Nat /\ inserted' \in Nat /\ i \in Int
      BY <2>2, NextTyped, KeyVaultAssumption DEF Typed, TypeOK, Ids
    <3> QED BY <2>2, <3>1, RowsKept
  <2> QED BY <2>1, <2>3 DEF Carries, Kept
<1>2. Making(r) => n \in removed' \/ Started(n, r.status)'
  BY <1>0 DEF MakerInv, Kept, Started
<1>3. r.pc \in {"mark", "complete"} => n \in removed' \/ files'[n] # NoFile
  BY <1>0 DEF MakerInv, Kept, FileStays, Making
<1> QED BY <1>0, <1>1, <1>2, <1>3 DEF MakerInv, Carries, Started, Making, OnPage, InArchive

\* What a step of a backup request must show: its own worker is sound, the
\* archives are, and the others find what they had.
Answers(w) ==
  /\ \A v \in Workers \ {w} : run'[v] = run[v]
  /\ removed \subseteq removed'
  /\ MakerInv(w)'
  /\ Making(run'[w]) => \A v \in Workers \ {w} : Making(run[v]) => run[v].name # run'[w].name
  /\ \A v \in Workers \ {w} : /\ Making(run[v]) => Kept(run[v].name)
                              /\ run[v].pc = "mark" => FileStays(run[v].name)
  /\ \A n \in Names : ArchiveSound(n)'

LEMMA AnswersSound ==
  ASSUME Typed, KeysSound, BackupsSound, [Next]_vars, NEW w \in Workers, Answers(w)
  PROVE  BackupsSound'
<1>1. ASSUME NEW v \in Workers PROVE MakerInv(v)'
  BY MakerKept DEF Answers
<1>2. OneMaker'
  BY DEF Answers, BackupsSound, OneMaker
<1> QED BY <1>1, <1>2 DEF Answers, BackupsSound

LEMMA AsideSound ==
  ASSUME Typed, KeysSound, BackupsSound, [Next]_vars, Aside
  PROVE  BackupsSound'
<1>1. UNCHANGED <<backups, files, removed>>
  BY DEF Aside, bakVars
<1>2. ASSUME NEW v \in Workers PROVE MakerInv(v)'
  <2>1. CASE run'[v] = run[v]
    BY <1>1, <2>1, MakerKept DEF Kept, FileStays
  <2>2. CASE run'[v].pc \notin BackupLabels
    BY <2>2 DEF BackupLabels, MakerInv, Making
  <2> QED BY <2>1, <2>2 DEF Aside
<1>3. OneMaker'
  <2>1. \A v \in Workers : Making(run'[v]) => run'[v] = run[v]
    BY DEF Aside, Making, BackupLabels
  <2> QED BY <2>1 DEF BackupsSound, OneMaker
<1>4. \A n \in Names : ArchiveSound(n)'
  BY <1>1 DEF BackupsSound, ArchiveSound, InArchive
<1> QED BY <1>2, <1>3, <1>4 DEF BackupsSound

\* What BackupsSound says of the rest while one request acts.
LEMMA OthersApart ==
  ASSUME Typed, BackupsSound, NEW w \in Workers
  PROVE  /\ run[w] \in Runs /\ Carried(run[w]) /\ MakerInv(w)
         /\ \A n \in Names : ArchiveSound(n) /\ backups[n] \in {NoBackup} \cup BackupRow
         /\ backups \in [Names -> {NoBackup} \cup BackupRow]
         /\ files \in [Names -> {NoFile} \cup Archive] /\ removed \subseteq Names
         /\ \A v \in Workers : run[v].pc \in BackupLabels => run[v].name \in Names
         /\ Making(run[w]) => \A v \in Workers \ {w} :
              Making(run[v]) => run[v].name # run[w].name
<1>1. backups \in [Names -> {NoBackup} \cup BackupRow]
      /\ files \in [Names -> {NoFile} \cup Archive] /\ removed \subseteq Names
      /\ run \in [Workers -> Runs] /\ \A v \in Workers : Carried(run[v])
  BY DEF Typed, TypeOK, BackupRow, Archive
<1>2. \A v \in Workers : run[v].pc \in BackupLabels => run[v].name \in Names
  BY <1>1 DEF Carried, BackupLabels
<1> QED BY <1>1, <1>2 DEF BackupsSound, OneMaker

LEMMA BeginBackupSound ==
  ASSUME Typed, KeysSound, BackupsSound, NEW w \in Workers, NEW n \in Names,
         NEW kind \in {"full", "metadata"}, BeginBackup(w, n, kind)
  PROVE  Answers(w)
<1> DEFINE new == [Free EXCEPT !.pc = "page", !.op = "backup", !.name = n, !.status = kind,
                               !.todo = {i \in Ids : rows[i].private}]
<1>1. /\ backups[n] = NoBackup /\ n \notin removed /\ Moves(w, new)
      /\ UNCHANGED <<rows, inserted, files, removed>>
  BY DEF BeginBackup, keyVars
<1>2. PICK expires \in BOOLEAN : backups' = [backups EXCEPT ![n] =
         [state |-> "running", kind |-> kind, expires |-> expires, must |-> {}]]
  BY DEF BeginBackup
<1>3. /\ new.pc = "page" /\ new.name = n /\ new.status = kind
      /\ new.todo = {i \in Ids : rows[i].private}
  BY DEF Free
<1> HIDE DEF new
<1>4. run'[w] = new /\ \A v \in Workers \ {w} : run'[v] = run[v]
  BY <1>1, MovesElse
<1>5. /\ backups'[n].state = "running" /\ backups'[n].kind = kind /\ backups'[n].must = {}
      /\ backups'[n] # NoBackup /\ \A m \in Names \ {n} : backups'[m] = backups[m]
  BY <1>2, OthersApart DEF NoBackup
<1>6. \A v \in Workers \ {w} : Making(run[v]) => run[v].name \in Names \ {n}
  BY <1>1, OthersApart DEF BackupsSound, MakerInv, Started, Making, BackupLabels
<1>7. MakerInv(w)'
  <2>1. \A i \in new.todo : i <= inserted'
    BY <1>1, <1>3, KeyVaultAssumption DEF KeysSound, Gone, Ids, Typed, TypeOK
  <2> QED BY <1>3, <1>4, <1>5, <2>1 DEF MakerInv, Making, Carries, Started
<1>8. \A m \in Names : ArchiveSound(m)'
  BY <1>1, <1>5, OthersApart DEF ArchiveSound, InArchive
<1>9. \A v \in Workers \ {w} : Making(run[v]) => Kept(run[v].name)
  BY <1>1, <1>5, <1>6 DEF Kept
<1> QED BY <1>1, <1>3, <1>4, <1>6, <1>7, <1>8, <1>9 DEF Answers, FileStays

\* Steps that only read: the row and the file of every name stay.
LEMMA ReadSound ==
  ASSUME Typed, BackupsSound, NEW w \in Workers, NEW new, Moves(w, new),
         UNCHANGED <<backups, files, removed>>,
         Making(new) => Making(run[w]) /\ new.name = run[w].name,
         MakerInv(w)'
  PROVE  Answers(w)
<1>1. run'[w] = new /\ \A v \in Workers \ {w} : run'[v] = run[v]
  BY MovesElse
<1>2. \A m \in Names : ArchiveSound(m)'
  BY OthersApart DEF ArchiveSound, InArchive
<1>3. Making(new) => \A v \in Workers \ {w} : Making(run[v]) => run[v].name # new.name
  BY OthersApart
<1> QED BY <1>1, <1>2, <1>3 DEF Answers, Kept, FileStays

LEMMA ListKeysSound ==
  ASSUME Typed, BackupsSound, NEW w \in Workers, ListKeys(w)
  PROVE  Answers(w)
<1> DEFINE r   == run[w]
           ids == NewestPage
           Item(i) == [id |-> i, fp |-> rows[i].fp, status |-> rows[i].status,
                       private |-> rows[i].private]
           p    == IF ids = {} THEN "write" ELSE "export"
           page == {Item(i) : i \in ids}
           kept == r.todo \cap ids
           new  == [r EXCEPT !.pc = p, !.page = page, !.todo = kept]
<1>0. r \in Runs /\ MakerInv(w)
  BY OthersApart
<1>1. /\ Moves(w, new) /\ p \in {"write", "export"}
      /\ r.pc = "page" /\ UNCHANGED <<rows, inserted, backups, files, removed>>
  BY DEF ListKeys, keyVars, bakVars
<1>2. ASSUME NEW i \in kept, rows[i].private
      PROVE  p = "export" /\ OnPage(page, i, rows[i].fp)
  <2>1. i \in ids /\ Item(i) \in page
    BY <1>2
  <2>2. Item(i).id = i /\ Item(i).fp = rows[i].fp /\ Item(i).private
    BY <1>2
  <2> QED BY <2>1, <2>2 DEF OnPage
<1>3. kept \subseteq r.todo
  OBVIOUS
<1> HIDE DEF p, page, kept
<1>4. /\ new.pc = p /\ new.page = page /\ new.name = r.name /\ new.status = r.status
      /\ new.todo = kept
  BY <1>0 DEF Runs
<1> HIDE DEF new
<1>5. run'[w] = new
  BY <1>1, MovesElse
<1>6. Carries(r) /\ (r.name \in removed \/ Started(r.name, r.status))
  BY <1>0, <1>1 DEF MakerInv, Making
<1>7. Carries(run[w])'
  <2>1. \A i \in new.todo : i <= inserted' /\ (rows'[i].private =>
           p = "export" /\ OnPage(page, i, rows'[i].fp))
    BY <1>1, <1>2, <1>3, <1>4, <1>6 DEF Carries
  <2> QED BY <1>4, <1>5, <2>1 DEF Carries, OnPage
<1>8. MakerInv(w)'
  <2>1. new.name \in removed' \/ Started(run[w].name, run[w].status)'
    BY <1>1, <1>4, <1>5, <1>6 DEF Started
  <2>2. new.pc \in {"write", "export"}
    BY <1>1, <1>4
  <2> QED BY <1>5, <1>7, <2>1, <2>2 DEF MakerInv, Carries, OnPage, InArchive, Started
<1>9. Making(r)
  BY <1>1 DEF Making
<1> QED BY <1>1, <1>4, <1>8, <1>9, ReadSound

LEMMA ExportKeySound ==
  ASSUME Typed, BackupsSound, NEW w \in Workers, ExportKey(w)
  PROVE  Answers(w)
<1> DEFINE r == run[w]
<1>0. /\ r \in Runs /\ MakerInv(w) /\ r.pc = "export" /\ Making(r) /\ r.todo \subseteq Ids
      /\ UNCHANGED <<rows, inserted, backups, files, removed>>
  BY OthersApart DEF ExportKey, keyVars, bakVars, Making, Runs
<1>1. Carries(r) /\ (r.name \in removed \/ Started(r.name, r.status))
  BY <1>0 DEF MakerInv
<1>2. ASSUME NEW new, Moves(w, new), new.pc \in {"write", "export", "fail"},
             new.name = r.name, new.status = r.status, Carries(run[w])'
      PROVE  Answers(w)
  <2>1. run'[w] = new
    BY <1>2, MovesElse
  <2>2. new.name \in removed' \/ Started(run[w].name, run[w].status)'
    BY <1>0, <1>1, <1>2, <2>1 DEF Started
  <2>3. MakerInv(w)'
    BY <1>2, <2>1, <2>2 DEF MakerInv, Carries, Started, OnPage, InArchive
  <2> QED BY <1>0, <1>2, <2>3, ReadSound
<1>3. ASSUME NEW k \in r.page, Exported(w, r, k, k.private /\ r.status # "metadata")
      PROVE  Answers(w)
  <2> DEFINE private == k.private /\ r.status # "metadata"
             rest == r.page \ {k}
             done == [fp |-> k.fp, status |-> k.status, pem |-> private]
             p    == IF rest = {} THEN "write" ELSE "export"
             out  == r.out \cup {done}
             new  == [r EXCEPT !.page = rest, !.pc = p, !.out = out]
  <2>1. Moves(w, new)
    BY <1>3 DEF Exported, Takes
  <2>2. done.fp = k.fp /\ (k.private /\ r.status = "full" => done.pem)
    OBVIOUS
  <2>3. p \in {"write", "export"} /\ (p = "write" => rest = {})
    OBVIOUS
  <2>4. done \in out /\ r.out \subseteq out
    OBVIOUS
  <2> HIDE DEF done, p, out
  <2>5. /\ new.pc = p /\ new.page = rest /\ new.out = out /\ new.name = r.name
        /\ new.status = r.status /\ new.todo = r.todo
    BY <1>0 DEF Runs
  <2> HIDE DEF new
  <2>6. ASSUME NEW i \in r.todo
        PROVE  i <= inserted' /\ (r.status = "full" /\ rows'[i].private =>
                 \/ InArchive(out, rows'[i].fp)
                 \/ p = "export" /\ OnPage(rest, i, rows'[i].fp))
    <3>1. /\ i <= inserted'
          /\ r.status = "full" /\ rows[i].private =>
               OnPage(r.page, i, rows[i].fp) \/ InArchive(r.out, rows[i].fp)
      BY <1>0, <1>1, <2>6 DEF Carries
    <3>2. InArchive(r.out, rows[i].fp) => InArchive(out, rows[i].fp)
      BY <2>4 DEF InArchive
    <3>3. ASSUME OnPage(r.page, i, rows[i].fp), r.status = "full"
          PROVE  InArchive(out, rows[i].fp) \/ (p = "export" /\ OnPage(rest, i, rows[i].fp))
      <4>1. PICK j \in r.page : j.id = i /\ j.fp = rows[i].fp /\ j.private
        BY <3>3 DEF OnPage
      <4>2. CASE j = k
        BY <2>2, <2>4, <3>3, <4>1, <4>2 DEF InArchive
      <4>3. CASE j # k
        BY <2>3, <4>1, <4>3 DEF OnPage
      <4> QED BY <4>2, <4>3
    <3> QED BY <1>0, <3>1, <3>2, <3>3
  <2>7. Carries(run[w])'
    <3>1. run'[w] = new
      BY <2>1, MovesElse
    <3> QED BY <2>3, <2>5, <2>6, <3>1 DEF Carries, OnPage, InArchive
  <2> QED BY <1>2, <2>1, <2>3, <2>5, <2>7
<1>4. CASE Moves(w, [r EXCEPT !.pc = "fail"])
  <2> DEFINE new == [r EXCEPT !.pc = "fail"]
  <2>1. /\ new.pc = "fail" /\ new.name = r.name /\ new.status = r.status
        /\ new.todo = r.todo
    BY <1>0 DEF Runs
  <2>2. Moves(w, new)
    BY <1>4
  <2> HIDE DEF new
  <2>3. Carries(run[w])'
    <3>1. run'[w] = new
      BY <2>2, MovesElse
    <3> QED BY <1>0, <1>1, <2>1, <3>1 DEF Carries
  <2> QED BY <1>2, <2>1, <2>2, <2>3
<1> QED
  <2>1. PICK k \in r.page :
          \/ Exported(w, r, k, k.private /\ r.status # "metadata")
          \/ ExportFails(w, r, k, k.private /\ r.status # "metadata")
    BY DEF ExportKey
  <2> QED BY <1>3, <1>4, <2>1 DEF ExportFails

LEMMA WriteArchiveSound ==
  ASSUME Typed, BackupsSound, NEW w \in Workers, WriteArchive(w)
  PROVE  Answers(w)
<1>0. run[w].pc = "write" /\ run[w].name \in Names
  BY OthersApart DEF WriteArchive, BackupLabels
<1> PICK n \in Names : n = run[w].name
  BY <1>0
<1> DEFINE r   == run[w]
           arc == [kind |-> r.status, keys |-> r.out]
           new == [r EXCEPT !.pc = "complete"]
<1>1. /\ r.pc = "write" /\ Moves(w, new) /\ files' = [files EXCEPT ![n] = arc]
      /\ UNCHANGED <<rows, inserted, backups, removed>>
  BY DEF WriteArchive, keyVars
<1>2. /\ r \in Runs /\ Carried(r) /\ MakerInv(w) /\ Making(r)
      /\ n \in Names /\ r.status \in {"full", "metadata"}
  BY <1>1, OthersApart DEF Carried, Making
<1>3. arc # NoFile /\ arc.keys = r.out
  BY <1>2 DEF NoFile
<1> HIDE DEF arc
<1>4. files'[n] = arc /\ \A m \in Names \ {n} : files'[m] = files[m]
  BY <1>1, <1>2, OthersApart
<1>5. /\ new.pc = "complete" /\ new.name = n /\ new.status = r.status /\ new.todo = r.todo
  BY <1>2 DEF Runs
<1> HIDE DEF new
<1>6. run'[w] = new /\ \A v \in Workers \ {w} : run'[v] = run[v]
  BY <1>1, MovesElse
<1>7. Carries(r) /\ (n \in removed \/ Started(n, r.status))
  BY <1>2 DEF MakerInv
<1>8. Carries(run[w])'
  BY <1>1, <1>3, <1>4, <1>5, <1>6, <1>7 DEF Carries, InArchive
<1>9. MakerInv(w)'
  BY <1>1, <1>3, <1>4, <1>5, <1>6, <1>7, <1>8 DEF MakerInv, Started
<1>10. \A v \in Workers \ {w} : Making(run[v]) => run[v].name \in Names \ {n}
  BY <1>2, OthersApart DEF Making, BackupLabels
<1>11. \A v \in Workers \ {w} : run[v].pc = "mark" => FileStays(run[v].name)
  BY <1>3, <1>4, OthersApart DEF FileStays, BackupLabels
<1>12. \A m \in Names : ArchiveSound(m)'
  <2>1. ArchiveSound(n)'
    BY <1>1, <1>3, <1>4, <1>7 DEF ArchiveSound, Started
  <2>2. \A m \in Names \ {n} : ArchiveSound(m)'
    BY <1>1, <1>4, OthersApart DEF ArchiveSound, InArchive
  <2> QED BY <2>1, <2>2
<1> QED BY <1>1, <1>4, <1>5, <1>6, <1>9, <1>10, <1>11, <1>12 DEF Answers, Kept

\* A request that ends: only the row of its name may change.
LEMMA EndSound ==
  ASSUME Typed, BackupsSound, NEW w \in Workers, NEW new, Moves(w, new),
         NEW n \in Names, n = run[w].name,
         new.pc \notin BackupLabels, run[w].pc \in BackupLabels,
         UNCHANGED <<files, removed>>,
         \A m \in Names \ {n} : backups'[m] = backups[m],
         Making(run[w]) \/ Kept(n),
         ArchiveSound(n)'
  PROVE  Answers(w)
<1>2. run'[w] = new /\ \A v \in Workers \ {w} : run'[v] = run[v]
  BY MovesElse
<1>3. MakerInv(w)' /\ ~Making(run'[w])
  BY <1>2 DEF MakerInv, Making, BackupLabels
<1>4. ASSUME NEW v \in Workers \ {w}, Making(run[v]) PROVE Kept(run[v].name)
  <2>1. CASE run[v].name = n
    BY <1>4, <2>1, OthersApart
  <2>2. CASE run[v].name # n
    BY <1>4, <2>2, OthersApart DEF Kept, Making, BackupLabels
  <2> QED BY <2>1, <2>2
<1>1. \A m \in Names : ArchiveSound(m)'
  <2>1. \A m \in Names \ {n} : ArchiveSound(m)'
    BY OthersApart DEF ArchiveSound, InArchive
  <2> QED BY <2>1
<1> QED BY <1>1, <1>2, <1>3, <1>4 DEF Answers, FileStays

LEMMA CompleteBackupSound ==
  ASSUME Typed, BackupsSound, NEW w \in Workers, CompleteBackup(w)
  PROVE  Answers(w)
<1>0. run[w].pc = "complete" /\ run[w].name \in Names
  BY OthersApart DEF CompleteBackup, BackupLabels
<1> PICK n \in Names : n = run[w].name
  BY <1>0
<1> DEFINE r == run[w]
           must == {rows[i].fp : i \in {j \in r.todo : rows[j].private}}
<1>1. /\ r.pc = "complete" /\ Making(r) /\ r.pc \in BackupLabels
      /\ UNCHANGED <<rows, files, removed>>
  BY DEF CompleteBackup, keyVars, Making, BackupLabels
<1>2. /\ n \in Names /\ MakerInv(w) /\ backups[n] \in {NoBackup} \cup BackupRow
      /\ backups \in [Names -> {NoBackup} \cup BackupRow]
  BY <1>1, OthersApart
<1>3. CASE backups[n] = NoBackup
  <2>1. Moves(w, Free) /\ UNCHANGED backups
    BY <1>3 DEF CompleteBackup
  <2>2. ArchiveSound(n)'
    BY <1>1, <1>2, <2>1, OthersApart DEF ArchiveSound, InArchive
  <2> QED BY <1>1, <1>2, <2>1, <2>2, EndSound DEF Free, BackupLabels
<1>4. CASE backups[n] # NoBackup
  <2> DEFINE new == [[Free EXCEPT !.op = "backup"] EXCEPT !.pc = "log"]
  <2>1. /\ Moves(w, new)
        /\ backups' = [backups EXCEPT ![n].state = "completed", ![n].must = must]
    BY <1>4 DEF CompleteBackup, Logs
  <2>2. new.pc \notin BackupLabels
    BY DEF Free, BackupLabels
  <2> HIDE DEF new, must
  <2>3. /\ backups'[n].must = must /\ backups'[n].kind = backups[n].kind
        /\ \A m \in Names \ {n} : backups'[m] = backups[m]
    BY <1>2, <1>4, <2>1 DEF BackupRow
  <2>4. ArchiveSound(n)'
    <3> SUFFICES ASSUME n \notin removed
                 PROVE  /\ files[n] # NoFile
                        /\ backups[n].kind = "full" =>
                             \A fp \in must : InArchive(files[n].keys, fp)
      BY <1>1, <2>3 DEF ArchiveSound, InArchive
    <3>1. Carries(r) /\ Started(n, r.status) /\ files[n] # NoFile
      BY <1>1, <1>2 DEF MakerInv
    <3>2. ASSUME backups[n].kind = "full", NEW fp \in must PROVE InArchive(files[n].keys, fp)
      <4>1. PICK i \in r.todo : rows[i].private /\ fp = rows[i].fp
        BY <3>2 DEF must
      <4> QED BY <1>1, <3>1, <3>2, <4>1 DEF Carries, Started
    <3> QED BY <3>1, <3>2
  <2> QED BY <1>1, <1>2, <2>1, <2>2, <2>3, <2>4, EndSound
<1> QED BY <1>3, <1>4

LEMMA StateSound ==
  ASSUME Typed, BackupsSound, NEW n \in Names, backups[n] # NoBackup, NEW s,
         backups' = [backups EXCEPT ![n].state = s], UNCHANGED <<files, removed>>
  PROVE  /\ Kept(n) /\ \A m \in Names \ {n} : backups'[m] = backups[m]
         /\ s \notin {"completed", "verified"} \/ files[n] # NoFile \/ n \in removed =>
              ArchiveSound(n)'
<1>1. /\ backups \in [Names -> {NoBackup} \cup BackupRow] /\ backups[n] \in BackupRow
      /\ ArchiveSound(n)
  BY DEF Typed, TypeOK, BackupRow, BackupsSound
<1>2. /\ backups'[n] = [backups[n] EXCEPT !.state = s]
      /\ \A m \in Names \ {n} : backups'[m] = backups[m]
  BY <1>1
<1>3. /\ backups'[n].state = s /\ backups'[n].kind = backups[n].kind
      /\ backups'[n].must = backups[n].must
  BY <1>1, <1>2 DEF BackupRow
<1>4. backups'[n] # NoBackup
  BY <1>1, <1>3 DEF BackupRow, NoBackup
<1> QED BY <1>1, <1>2, <1>3, <1>4 DEF Kept, ArchiveSound, InArchive

LEMMA FailBackupSound ==
  ASSUME Typed, BackupsSound, NEW w \in Workers, FailBackup(w) \/ MarkVerified(w)
  PROVE  Answers(w)
<1>0. run[w].pc \in BackupLabels /\ run[w].name \in Names
  BY OthersApart DEF FailBackup, MarkVerified, BackupLabels
<1> PICK n \in Names : n = run[w].name
  BY <1>0
<1>1. /\ run[w].pc \in {"fail", "mark"} /\ UNCHANGED <<files, removed>>
      /\ run[w].pc \in BackupLabels
  BY DEF FailBackup, MarkVerified, BackupLabels
<1>2. /\ n \in Names /\ MakerInv(w) /\ ArchiveSound(n)
  BY <1>1, OthersApart
<1> DEFINE logs == [[Free EXCEPT !.op = "verify"] EXCEPT !.pc = "log"]
<1>3. PICK new \in {Free, logs} : Moves(w, new) /\ new.pc \notin BackupLabels
  <2>1. Free.pc \notin BackupLabels /\ logs.pc \notin BackupLabels
    BY DEF Free, BackupLabels
  <2>2. Moves(w, Free) \/ Moves(w, logs)
    BY DEF FailBackup, MarkVerified, Logs
  <2> QED BY <2>1, <2>2
<1>4. CASE backups[n] = NoBackup
  <2>1. UNCHANGED backups
    BY <1>4 DEF FailBackup, MarkVerified
  <2>2. ArchiveSound(n)'
    BY <1>1, <1>2, <2>1 DEF ArchiveSound, InArchive
  <2> QED BY <1>1, <1>2, <1>3, <2>1, <2>2, EndSound DEF Kept
<1>5. ASSUME backups[n] # NoBackup, FailBackup(w) PROVE Answers(w)
  <2>1. backups' = [backups EXCEPT ![n].state = "failed"]
    BY <1>5 DEF FailBackup
  <2>2. /\ Kept(n) /\ ArchiveSound(n)'
        /\ \A m \in Names \ {n} : backups'[m] = backups[m]
    <3>1. "failed" \notin {"completed", "verified"}
      OBVIOUS
    <3>2. "failed" \notin {"completed", "verified"} \/ files[n] # NoFile \/ n \in removed
      BY <3>1
    <3> QED BY <1>1, <1>5, <2>1, <3>2, StateSound, Zenon
  <2> QED BY <1>1, <1>3, <2>2, EndSound
<1>6. ASSUME backups[n] # NoBackup, MarkVerified(w) PROVE Answers(w)
  <2>1. run[w].pc = "mark" /\ backups' = [backups EXCEPT ![n].state = "verified"]
    BY <1>6 DEF MarkVerified
  <2>2. files[n] # NoFile \/ n \in removed
    BY <1>2, <2>1 DEF MakerInv
  <2>3. /\ Kept(n) /\ ArchiveSound(n)'
        /\ \A m \in Names \ {n} : backups'[m] = backups[m]
    BY <1>1, <1>6, <2>1, <2>2, StateSound
  <2> QED BY <1>1, <1>3, <2>3, EndSound
<1> QED BY <1>4, <1>5, <1>6

LEMMA BeginVerifySound ==
  ASSUME Typed, BackupsSound, NEW w \in Workers, NEW n \in Names, BeginVerify(w, n)
  PROVE  Answers(w)
<1> DEFINE new == [Free EXCEPT !.pc = "mark", !.op = "verify", !.name = n]
           bad == [Free EXCEPT !.pc = "log", !.op = "verify"]
<1>1. /\ files[n] # NoFile /\ UNCHANGED <<backups, files, removed>>
      /\ Moves(w, new) \/ Moves(w, bad)
  BY DEF BeginVerify, bakVars
<1>2. new.pc = "mark" /\ new.name = n /\ bad.pc = "log"
  BY DEF Free
<1> HIDE DEF new, bad
<1>3. run'[w] = new \/ run'[w] = bad
  BY <1>1, MovesElse
<1>4. MakerInv(w)' /\ ~Making(new) /\ ~Making(bad)
  BY <1>1, <1>2, <1>3 DEF MakerInv, Making
<1> QED BY <1>1, <1>4, ReadSound

LEMMA RemoveArchiveSound ==
  ASSUME Typed, BackupsSound, NEW w \in Workers, NEW n \in Names, RemoveArchive(w, n)
  PROVE  Answers(w)
<1> DEFINE new == [Free EXCEPT !.pc = "droprow", !.op = "unbackup", !.name = n]
<1>1. /\ Moves(w, new) /\ files' = [files EXCEPT ![n] = NoFile]
      /\ removed' = removed \cup {n} /\ UNCHANGED backups
  BY DEF RemoveArchive
<1>2. new.pc = "droprow" /\ new.name = n
  BY DEF Free
<1> HIDE DEF new
<1>3. run'[w] = new /\ \A v \in Workers \ {w} : run'[v] = run[v]
  BY <1>1, MovesElse
<1>4. \A m \in Names \ {n} : files'[m] = files[m]
  BY <1>1, OthersApart
<1>5. MakerInv(w)' /\ ~Making(run'[w])
  BY <1>1, <1>2, <1>3 DEF MakerInv, Making
<1>6. \A m \in Names : Kept(m) /\ FileStays(m)
  BY <1>1, <1>4 DEF Kept, FileStays
<1>7. \A m \in Names : ArchiveSound(m)'
  BY <1>1, <1>4, OthersApart DEF ArchiveSound, InArchive
<1> QED BY <1>1, <1>3, <1>5, <1>6, <1>7, OthersApart DEF Answers, Making, BackupLabels

LEMMA DropBackupSound ==
  ASSUME Typed, BackupsSound, NEW w \in Workers, DropBackup(w)
  PROVE  Answers(w)
<1>0. run[w].pc \in BackupLabels /\ run[w].name \in Names
  BY OthersApart DEF DropBackup, BackupLabels
<1> PICK n \in Names : n = run[w].name
  BY <1>0
<1>1. /\ run[w].pc = "droprow" /\ run[w].pc \in BackupLabels /\ Moves(w, Free)
      /\ backups' = [backups EXCEPT ![n] = NoBackup] /\ UNCHANGED <<files, removed>>
  BY DEF DropBackup, BackupLabels
<1>2. n \in removed /\ n \in Names
  BY <1>1, OthersApart DEF MakerInv
<1>3. \A m \in Names \ {n} : backups'[m] = backups[m]
  BY <1>1, OthersApart
<1>4. Kept(n) /\ ArchiveSound(n)'
  BY <1>1, <1>2 DEF Kept, ArchiveSound
<1> QED BY <1>1, <1>3, <1>4, EndSound DEF Free, BackupLabels

LEMMA BackupsInductive ==
  ASSUME Typed, KeysSound, BackupsSound, [Next]_vars
  PROVE  BackupsSound'
<1>1. ASSUME NEW w \in Workers, BackupStep(w) PROVE Answers(w)
  BY <1>1, BeginBackupSound, ListKeysSound, ExportKeySound, WriteArchiveSound,
     CompleteBackupSound, FailBackupSound, BeginVerifySound, RemoveArchiveSound,
     DropBackupSound DEF BackupStep
<1> QED BY <1>1, StepAside, AsideSound, AnswersSound

LEMMA BackupsInit == Init => BackupsSound
<1> SUFFICES ASSUME Init PROVE BackupsSound
  OBVIOUS
<1>1. \A w \in Workers : ~Making(run[w]) /\ run[w].pc \notin {"mark", "droprow"}
  BY DEF Init, Free, Making
<1>2. \A n \in Names : backups[n].state = "none" /\ backups[n].must = {}
  BY DEF Init, NoBackup
<1> QED BY <1>1, <1>2 DEF BackupsSound, MakerInv, Making, OneMaker, ArchiveSound

\* ArchiveHoldsKeys: a completed or verified archive that was not removed is there,
\* and a full one yields every private half its request found, on the one page it
\* listed, and nobody destroyed meanwhile (backup.go Run, Verify, Delete,
\* PruneExpired), however many keys there are and however few a page takes.
THEOREM ArchivesHoldKeys == Spec => []ArchiveHoldsKeys
<1>1. BackupsSound => ArchiveHoldsKeys
  BY DEF BackupsSound, ArchiveSound, ArchiveHoldsKeys, InArchive
<1>2. Init => Typed /\ KeysSound /\ BackupsSound
  BY TypedInit, KeysInit, BackupsInit
<1>3. Typed /\ KeysSound /\ BackupsSound /\ [Next]_vars => (Typed /\ KeysSound /\ BackupsSound)'
  BY NextTyped, KeysInductive, BackupsInductive
<1> QED BY <1>1, <1>2, <1>3, PTL DEF Spec

=============================================================================
