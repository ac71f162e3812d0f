------------------------------ MODULE KeyVault ------------------------------
(***************************************************************************)
(* Private keys at rest: service/keys.go and store/keys.go over the        *)
(* envelope of vault/vault.go, the hash-chained log of audit/audit.go that *)
(* records each access, and service/backup.go, which carries the keys out  *)
(* of one install and into another.                                        *)
(*                                                                         *)
(* A worker is one request of the one server process that holds the KEKs.  *)
(* Each statement or transaction of a request is an action. Material is    *)
(* known by the KEK version its data key is wrapped under: the ciphertext  *)
(* is bound to the row's id, and no step moves it to another row.          *)
(***************************************************************************)
EXTENDS Integers, Sequences, FiniteSets

CONSTANTS
  Prints,      \* fingerprints of the keypairs that exist
  MaxRows,     \* rows ever inserted into keys
  MaxKek,      \* KEK versions ever unsealed
  Names,       \* names of backups; a name is not used twice (BeginBackup)
  Workers,
  Ops,         \* the requests made
  MaxOps,      \* how many
  Faults,      \* "crash", "audit" (Log fails), "read" (a query fails)
  MaxFaults,
  PageLimit,   \* rows one List returns at most
  BatchSize    \* the limit RotateKEK gives MaterialNeedingRewrap

Nobody == "nobody"     \* holds the lock of the audit log

ASSUME KeyVaultAssumption ==
  /\ Nobody \notin Workers
  /\ MaxRows \in Nat /\ MaxKek \in Nat \ {0} /\ MaxOps \in Nat /\ MaxFaults \in Nat
  /\ PageLimit \in Nat \ {0} /\ BatchSize \in Nat \ {0}

VARIABLES
  rows,      \* keys: fingerprint, status and has_private_key by id
  inserted,  \* rows inserted so far
  material,  \* key_material.kek_version by id; 0 without a row
  assigned,  \* ids that key_assignments refers to
  kek,       \* Vault.current; versions 1 .. kek are installed, 0 is sealed
  latest,    \* the highest version ever unsealed
  log,       \* audit_events: what, on which row, linked to which record
  locked,    \* the worker that holds the advisory lock
  backups,   \* backups: state, kind and what the archive should hold
  files,     \* archives in the backup directory
  run,       \* what each worker is doing
  ops, faults,
  handed,    \* history: reveals handed out, with the record of each
  rotated,   \* history: the version of the last RotateKEK that returned
  late,      \* history: material stored under a KEK superseded meanwhile
  removed    \* history: names whose archive a Delete or a prune removed

keyVars == <<rows, inserted, material, assigned>>
bakVars == <<backups, files, removed>>
vars == <<keyVars, kek, latest, log, locked, bakVars, run, ops, faults,
          handed, rotated, late>>

Ids == 1 .. MaxRows
Gone == [fp |-> "none", status |-> "none", private |-> FALSE]
Statuses == {"pending", "active", "retiring", "retired", "revoked", "destroyed"}
KeyRow == {Gone} \cup [fp: Prints, status: Statuses, private: BOOLEAN]

\* One key of an archive: KeyRecord, with its PrivatePEM or without.
Entry == [fp: Prints, status: Statuses, pem: BOOLEAN]
NoFile == [kind |-> "none", keys |-> {}]
NoBackup == [state |-> "none", kind |-> "none", expires |-> FALSE, must |-> {}]

Free == [pc |-> "idle", op |-> "none", id |-> 0, name |-> "none", ver |-> 0,
         status |-> "none", fp |-> "none", head |-> 0,
         todo |-> {}, page |-> {}, out |-> {}]

Exists(i) == rows[i] # Gone
RowOf(fp) == {i \in Ids : rows[i].fp = fp}

\* Keys of earlier requests, and archives another install may have written.
Init ==
  /\ inserted \in 0 .. MaxRows
  /\ rows \in {r \in [Ids -> KeyRow] :
       /\ \A i \in Ids : IF i > inserted THEN r[i] = Gone
                         ELSE r[i].status = "active" /\ r[i].private
       /\ \A i, j \in 1 .. inserted : r[i].fp = r[j].fp => i = j}
  /\ material = [i \in Ids |-> IF i <= inserted THEN 1 ELSE 0] /\ assigned = {}
  /\ kek = 1 /\ latest = 1
  /\ log = <<>> /\ locked = Nobody
  /\ backups = [n \in Names |-> NoBackup]
  /\ files \in [Names -> {NoFile, [kind |-> "full",
       keys |-> {[fp |-> fp, status |-> "active", pem |-> TRUE] : fp \in Prints}]}]
  /\ run = [w \in Workers |-> Free]
  /\ ops = 0 /\ faults = 0
  /\ handed = {} /\ rotated = 0 /\ late = {} /\ removed = {}

-----------------------------------------------------------------------------
Moves(w, r) == run' = [run EXCEPT ![w] = r]

\* The handler writes its audit record and returns.
Logs(w, r) == Moves(w, [r EXCEPT !.pc = "log"])

Begins(w, op) ==
  /\ op \in Ops /\ ops < MaxOps
  /\ run[w].pc = "idle"
  /\ ops' = ops + 1

Fault(kind) ==
  /\ kind \in Faults /\ faults < MaxFaults
  /\ faults' = faults + 1

\* Rewrapped or created, material is under version v; a request that sealed it
\* before a newer KEK was installed is late.
Stores(i, v) ==
  /\ material' = [material EXCEPT ![i] = v]
  /\ late' = IF 0 < v /\ v < latest THEN late \cup {i} ELSE late \ {i}

-----------------------------------------------------------------------------
\* audit.Log: the lock, the head of the chain, the insert.

\* Mutant: the head is read without the lock.
ReadsUnlocked(w) ==
  /\ run[w].pc = "log"
  /\ Moves(w, [run[w] EXCEPT !.pc = "append", !.head = Len(log)])
  /\ UNCHANGED <<keyVars, kek, latest, log, locked, bakVars, ops, faults, handed,
                 rotated, late>>

ReadHead(w) ==
  /\ run[w].pc = "log" /\ locked = Nobody
  /\ locked' = w
  /\ Moves(w, [run[w] EXCEPT !.pc = "append", !.head = Len(log)])
  /\ UNCHANGED <<keyVars, kek, latest, log, bakVars, ops, faults, handed, rotated, late>>

\* A reveal goes on with the number of its own record.
AppendRecord(w) ==
  LET r == run[w] IN
  /\ r.pc = "append"
  /\ log' = Append(log, [what |-> r.op, id |-> r.id, prev |-> r.head])
  /\ locked' = Nobody
  /\ Moves(w, IF r.op = "reveal" THEN [r EXCEPT !.pc = "open", !.head = Len(log) + 1]
              ELSE Free)
  /\ UNCHANGED <<keyVars, kek, latest, bakVars, ops, faults, handed, rotated, late>>

\* Mutant: a record that cannot be written is logged and forgotten.
RevealsUnrecorded(w) ==
  LET r == run[w] IN
  /\ r.pc = "append" /\ Fault("audit")
  /\ locked' = Nobody
  /\ Moves(w, IF r.op = "reveal" THEN [r EXCEPT !.pc = "open"] ELSE Free)
  /\ UNCHANGED <<keyVars, kek, latest, log, bakVars, ops, handed, rotated, late>>

\* Reveal refuses what it cannot record; the others have done their work.
LogFails(w) ==
  LET r == run[w] IN
  /\ r.pc = "append" /\ Fault("audit")
  /\ locked' = Nobody
  /\ Moves(w, Free)
  /\ UNCHANGED <<keyVars, kek, latest, log, bakVars, ops, handed, rotated, late>>

-----------------------------------------------------------------------------
\* Keys.

\* Generate and Import seal the private half, then insert row and material.
BeginCreate(w, fp) ==
  /\ kek > 0
  /\ \/ Begins(w, "generate") /\ fp \notin {rows[i].fp : i \in Ids}
        /\ Moves(w, [Free EXCEPT !.pc = "insert", !.op = "generate", !.fp = fp,
                                 !.ver = kek, !.status = "pending"])
     \/ Begins(w, "import")
        /\ Moves(w, [Free EXCEPT !.pc = "insert", !.op = "import", !.fp = fp,
                                 !.ver = kek, !.status = "active"])
  /\ UNCHANGED <<keyVars, kek, latest, log, locked, bakVars, faults, handed, rotated, late>>

\* Keys.Create: one transaction; a fingerprint SKM has is a conflict.
InsertKey(w) ==
  LET r == run[w]
      i == inserted + 1
      back == IF r.op = "restore" THEN [r EXCEPT !.pc = "restore"] ELSE Free
  IN
  /\ r.pc = "insert"
  /\ \/ /\ RowOf(r.fp) # {}
        /\ Moves(w, back)
        /\ UNCHANGED <<rows, inserted, material, late>>
     \/ /\ RowOf(r.fp) = {} /\ inserted < MaxRows
        /\ rows' = [rows EXCEPT ![i] =
                     [fp |-> r.fp, status |-> r.status, private |-> r.ver > 0]]
        /\ inserted' = i
        /\ Stores(i, r.ver)
        /\ IF r.op = "restore" THEN Moves(w, back) ELSE Logs(w, [r EXCEPT !.id = i])
  /\ UNCHANGED <<assigned, kek, latest, log, locked, bakVars, ops, faults, handed, rotated>>

RequestReveal(w, i) ==
  /\ Begins(w, "reveal")
  /\ Exists(i) /\ rows[i].private
  /\ Logs(w, [Free EXCEPT !.op = "reveal", !.id = i])
  /\ UNCHANGED <<keyVars, kek, latest, log, locked, bakVars, faults, handed, rotated, late>>

\* LoadMaterial and Decrypt; by now the key may be gone.
HandOver(w) ==
  LET r == run[w] IN
  /\ r.pc = "open"
  /\ handed' = IF material[r.id] \in 1 .. kek
               THEN handed \cup {[id |-> r.id, rec |-> r.head]} ELSE handed
  /\ Moves(w, Free)
  /\ UNCHANGED <<keyVars, kek, latest, log, locked, bakVars, ops, faults, rotated, late>>

\* Revoke, and PUT /keys/{id}/status: whatever the status was.
SetStatus(w, i) ==
  /\ Begins(w, "status") /\ Exists(i)
  /\ \E s \in {"active", "revoked"} :
       rows' = [rows EXCEPT ![i].status = s]
  /\ Logs(w, [Free EXCEPT !.op = "status", !.id = i])
  /\ UNCHANGED <<inserted, material, assigned, kek, latest, log, locked, bakVars,
                 faults, handed, rotated, late>>

\* A deployment that proves a pending key: it reads the key, logs in, and sets
\* it active.
ReadForProof(w, i) ==
  /\ Begins(w, "prove") /\ Exists(i) /\ material[i] \in 1 .. kek
  /\ Moves(w, [Free EXCEPT !.pc = "promote", !.op = "prove", !.id = i,
                           !.status = rows[i].status])
  /\ UNCHANGED <<keyVars, kek, latest, log, locked, bakVars, faults, handed, rotated, late>>

Promote(w) ==
  LET r == run[w] IN
  /\ r.pc = "promote"
  /\ rows' = IF r.status = "pending" /\ Exists(r.id)
             THEN [rows EXCEPT ![r.id].status = "active"] ELSE rows
  /\ Moves(w, Free)
  /\ UNCHANGED <<inserted, material, assigned, kek, latest, log, locked, bakVars,
                 ops, faults, handed, rotated, late>>

\* A rotation's promotion of new over old, and later its retirement of old: the
\* statuses are set whatever they were.
BeginPromotion(w, old, new) ==
  /\ Begins(w, "rotation") /\ Exists(old) /\ Exists(new) /\ old # new
  /\ Moves(w, [Free EXCEPT !.pc = "activate", !.op = "rotation", !.id = new,
                           !.todo = {old}, !.status = "retiring"])
  /\ UNCHANGED <<keyVars, kek, latest, log, locked, bakVars, faults, handed, rotated, late>>

BeginRetirement(w, old) ==
  /\ Begins(w, "rotation") /\ Exists(old)
  /\ Moves(w, [Free EXCEPT !.pc = "demote", !.op = "rotation", !.todo = {old},
                           !.status = "retired"])
  /\ UNCHANGED <<keyVars, kek, latest, log, locked, bakVars, faults, handed, rotated, late>>

Activate(w) ==
  LET r == run[w] IN
  /\ r.pc = "activate"
  /\ IF Exists(r.id)
     THEN /\ rows' = [rows EXCEPT ![r.id].status = "active"]
          /\ Moves(w, [r EXCEPT !.pc = "demote", !.id = 0])
     ELSE Moves(w, Free) /\ UNCHANGED rows
  /\ UNCHANGED <<inserted, material, assigned, kek, latest, log, locked, bakVars,
                 ops, faults, handed, rotated, late>>

Demote(w) ==
  LET r == run[w] IN
  /\ r.pc = "demote"
  /\ rows' = [i \in Ids |-> IF i \in r.todo /\ Exists(i)
                             THEN [rows[i] EXCEPT !.status = r.status] ELSE rows[i]]
  /\ Moves(w, Free)
  /\ UNCHANGED <<inserted, material, assigned, kek, latest, log, locked, bakVars,
                 ops, faults, handed, rotated, late>>

-----------------------------------------------------------------------------
\* Delete: refused while assigned, then the material, then the row.

Assign(i) ==
  /\ "assign" \in Ops /\ ops < MaxOps /\ ops' = ops + 1
  /\ Exists(i) /\ i \notin assigned
  /\ assigned' = assigned \cup {i}
  /\ UNCHANGED <<rows, inserted, material, kek, latest, log, locked, bakVars, run,
                 faults, handed, rotated, late>>

BeginDelete(w, i) ==
  /\ Begins(w, "delete") /\ Exists(i) /\ i \notin assigned
  /\ Moves(w, [Free EXCEPT !.pc = "shred", !.op = "delete", !.id = i])
  /\ UNCHANGED <<keyVars, kek, latest, log, locked, bakVars, faults, handed, rotated, late>>

\* Mutant: the row still says it has a private key.
ShredsMaterialOnly(w) ==
  LET r == run[w] IN
  /\ r.pc = "shred"
  /\ Stores(r.id, 0)
  /\ rows' = IF Exists(r.id) THEN [rows EXCEPT ![r.id].status = "destroyed"] ELSE rows
  /\ Moves(w, [r EXCEPT !.pc = "erase"])
  /\ UNCHANGED <<inserted, assigned, kek, latest, log, locked, bakVars, ops, faults,
                 handed, rotated>>

DestroyMaterial(w) ==
  LET r == run[w] IN
  /\ r.pc = "shred"
  /\ Stores(r.id, 0)
  /\ rows' = IF Exists(r.id)
             THEN [rows EXCEPT ![r.id].status = "destroyed", ![r.id].private = FALSE]
             ELSE rows
  /\ Moves(w, [r EXCEPT !.pc = "erase"])
  /\ UNCHANGED <<inserted, assigned, kek, latest, log, locked, bakVars, ops, faults,
                 handed, rotated>>

\* The foreign keys cascade to the material and to the assignments.
EraseKey(w) ==
  LET r == run[w] IN
  /\ r.pc = "erase"
  /\ rows' = [rows EXCEPT ![r.id] = Gone]
  /\ Stores(r.id, 0)
  /\ assigned' = assigned \ {r.id}
  /\ IF Exists(r.id) THEN Logs(w, r) ELSE Moves(w, Free)
  /\ UNCHANGED <<inserted, kek, latest, log, locked, bakVars, ops, faults, handed, rotated>>

-----------------------------------------------------------------------------
\* KEKs.

\* An operator unseals a newer version, or a restarted process all it had.
Unseal ==
  /\ \/ kek = 0 /\ kek' = latest /\ UNCHANGED latest
     \/ "unseal" \in Ops /\ kek > 0 /\ kek < MaxKek /\ kek' = kek + 1 /\ latest' = kek + 1
  /\ UNCHANGED <<keyVars, log, locked, bakVars, run, ops, faults, handed, rotated, late>>

BeginRotateKEK(w) ==
  /\ Begins(w, "rotate") /\ kek > 0
  /\ Moves(w, [Free EXCEPT !.pc = "list", !.op = "rotate", !.ver = kek])
  /\ UNCHANGED <<keyVars, kek, latest, log, locked, bakVars, faults, handed, rotated, late>>

Old(v) == {i \in Ids : material[i] \in 1 .. v - 1}

\* MaterialNeedingRewrap, in the order of the ids, which are random.
ListOld(w) ==
  LET r == run[w] IN
  /\ r.pc = "list"
  /\ \E batch \in SUBSET Old(r.ver) :
       /\ Cardinality(batch) <= BatchSize
       /\ Cardinality(batch) = BatchSize \/ batch = Old(r.ver)
       /\ IF batch # {}
          THEN Moves(w, [r EXCEPT !.pc = "rewrap", !.todo = batch])
               /\ UNCHANGED rotated
          ELSE Logs(w, [Free EXCEPT !.op = "rotate"])
               /\ rotated' = IF rotated < r.ver THEN r.ver ELSE rotated
  /\ UNCHANGED <<keyVars, kek, latest, log, locked, bakVars, ops, faults, handed, late>>

\* LoadMaterial and Rewrap, under whatever KEK is current; a key deleted since
\* ends the rotation.
Rewrap(w) ==
  LET r == run[w] IN
  /\ r.pc = "rewrap"
  /\ \E i \in r.todo :
       Moves(w, IF material[i] = 0 \/ kek = 0 THEN Free
                ELSE [r EXCEPT !.pc = "store", !.id = i, !.head = kek])
  /\ UNCHANGED <<keyVars, kek, latest, log, locked, bakVars, ops, faults, handed, rotated, late>>

\* Mutant: one batch is all there is.
RewrapsOneBatch(w) ==
  LET r == run[w] IN
  /\ r.pc = "store" /\ Exists(r.id)
  /\ Stores(r.id, r.head)
  /\ IF r.todo = {r.id}
     THEN Logs(w, [Free EXCEPT !.op = "rotate"])
          /\ rotated' = IF rotated < r.ver THEN r.ver ELSE rotated
     ELSE Moves(w, [r EXCEPT !.pc = "rewrap", !.todo = @ \ {r.id}]) /\ UNCHANGED rotated
  /\ UNCHANGED <<rows, inserted, assigned, kek, latest, log, locked, bakVars, ops,
                 faults, handed>>

\* StoreMaterial is an upsert; without the key row it fails.
StoreMaterial(w) ==
  LET r == run[w]
      rest == r.todo \ {r.id}
  IN
  /\ r.pc = "store"
  /\ \/ /\ Exists(r.id)
        /\ Stores(r.id, r.head)
        /\ Moves(w, [r EXCEPT !.todo = rest, !.id = 0, !.head = 0,
                              !.pc = IF rest = {} THEN "list" ELSE "rewrap"])
     \/ ~Exists(r.id) /\ Moves(w, Free) /\ UNCHANGED <<material, late>>
  /\ UNCHANGED <<rows, inserted, assigned, kek, latest, log, locked, bakVars, ops,
                 faults, handed, rotated>>

-----------------------------------------------------------------------------
\* Backups.

\* The row first, in state "running".
BeginBackup(w, n, kind) ==
  /\ Begins(w, "backup")
  /\ backups[n] = NoBackup /\ n \notin removed
  /\ \E expires \in BOOLEAN :
       backups' = [backups EXCEPT ![n] =
         [state |-> "running", kind |-> kind, expires |-> expires, must |-> {}]]
  /\ Moves(w, [Free EXCEPT !.pc = "page", !.op = "backup", !.name = n, !.status = kind,
                           !.todo = {i \in Ids : rows[i].private}])
  /\ UNCHANGED <<keyVars, kek, latest, log, locked, files, removed, faults, handed,
                 rotated, late>>

\* Keys.List: the newest rows, one page of them.
NewestPage == {i \in Ids :
  Exists(i) /\ Cardinality({j \in Ids : Exists(j) /\ j > i}) < PageLimit}

\* buildPayload lists the keys once, and asks for one page.
ListKeys(w) ==
  LET r == run[w] IN
  /\ r.pc = "page"
  /\ Moves(w, [r EXCEPT !.pc = IF NewestPage = {} THEN "write" ELSE "export",
       !.page = {[id |-> i, fp |-> rows[i].fp, status |-> rows[i].status,
                  private |-> rows[i].private] : i \in NewestPage},
       !.todo = @ \cap NewestPage])
  /\ UNCHANGED <<keyVars, kek, latest, log, locked, bakVars, ops, faults, handed,
                 rotated, late>>

Takes(r, k, pem) ==
  LET rest == r.page \ {k} IN
  [r EXCEPT !.page = rest, !.pc = IF rest = {} THEN "write" ELSE "export",
            !.out = @ \cup {[fp |-> k.fp, status |-> k.status, pem |-> pem]}]

Exported(w, r, k, private) ==
  /\ private => material[k.id] \in 1 .. kek
  /\ Moves(w, Takes(r, k, private))
  /\ UNCHANGED faults

\* Mutant: a private half that cannot be read is left out.
LeavesOut(w, r, k, private) ==
  /\ private
  /\ \/ material[k.id] \notin 1 .. kek /\ UNCHANGED faults
     \/ material[k.id] \in 1 .. kek /\ Fault("read")
  /\ Moves(w, Takes(r, k, FALSE))

\* The backup fails when a private half cannot be read.
ExportFails(w, r, k, private) ==
  /\ private
  /\ \/ material[k.id] \notin 1 .. kek /\ UNCHANGED faults
     \/ material[k.id] \in 1 .. kek /\ Fault("read")
  /\ Moves(w, [r EXCEPT !.pc = "fail"])

ExportKey(w) ==
  LET r == run[w] IN
  /\ r.pc = "export"
  /\ \E k \in r.page :
       LET private == k.private /\ r.status # "metadata" IN
       Exported(w, r, k, private) \/ ExportFails(w, r, k, private)
  /\ UNCHANGED <<keyVars, kek, latest, log, locked, bakVars, ops, handed, rotated, late>>

\* A temporary file, renamed into place.
WriteArchive(w) ==
  LET r == run[w] IN
  /\ r.pc = "write"
  /\ files' = [files EXCEPT ![r.name] = [kind |-> r.status, keys |-> r.out]]
  /\ Moves(w, [r EXCEPT !.pc = "complete"])
  /\ UNCHANGED <<keyVars, kek, latest, log, locked, backups, removed, ops, faults,
                 handed, rotated, late>>

\* Complete, of a row a prune may have removed. What the archive must hold is
\* what had a private half throughout and was on the page.
CompleteBackup(w) ==
  LET r == run[w]
      b == backups[r.name]
  IN
  /\ r.pc = "complete"
  /\ IF b = NoBackup
     THEN Moves(w, Free) /\ UNCHANGED backups
     ELSE /\ backups' = [backups EXCEPT ![r.name].state = "completed",
               ![r.name].must =
                 {rows[i].fp : i \in {j \in r.todo : rows[j].private}}]
          /\ Logs(w, [Free EXCEPT !.op = "backup"])
  /\ UNCHANGED <<keyVars, kek, latest, log, locked, files, removed, ops, faults,
                 handed, rotated, late>>

\* Mutant: writes a state the table does not have.
FailsToError(w) ==
  LET r == run[w] IN
  /\ r.pc = "fail"
  /\ backups' = [backups EXCEPT ![r.name].state = "error"]
  /\ Moves(w, Free)
  /\ UNCHANGED <<keyVars, kek, latest, log, locked, files, removed, ops, faults,
                 handed, rotated, late>>

FailBackup(w) ==
  LET r == run[w] IN
  /\ r.pc = "fail"
  /\ backups' = IF backups[r.name] = NoBackup THEN backups
                ELSE [backups EXCEPT ![r.name].state = "failed"]
  /\ Moves(w, Free)
  /\ UNCHANGED <<keyVars, kek, latest, log, locked, files, removed, ops, faults,
                 handed, rotated, late>>

\* Verify: every entry of the file must yield its private half.
BeginVerify(w, n) ==
  /\ Begins(w, "verify")
  /\ backups[n] # NoBackup /\ files[n] # NoFile
  /\ Moves(w, IF files[n].kind = "metadata" \/ \A e \in files[n].keys : e.pem
              THEN [Free EXCEPT !.pc = "mark", !.op = "verify", !.name = n]
              ELSE [Free EXCEPT !.pc = "log", !.op = "verify"])
  /\ UNCHANGED <<keyVars, kek, latest, log, locked, bakVars, faults, handed, rotated, late>>

MarkVerified(w) ==
  LET r == run[w] IN
  /\ r.pc = "mark"
  /\ backups' = IF backups[r.name] = NoBackup THEN backups
                ELSE [backups EXCEPT ![r.name].state = "verified"]
  /\ Logs(w, [Free EXCEPT !.op = "verify"])
  /\ UNCHANGED <<keyVars, kek, latest, log, locked, files, removed, ops, faults,
                 handed, rotated, late>>

\* Restore reads the whole archive, then goes through its keys.
BeginRestore(w, n) ==
  /\ Begins(w, "restore") /\ files[n] # NoFile
  /\ Moves(w, [Free EXCEPT !.pc = "restore", !.op = "restore", !.page = files[n].keys])
  /\ UNCHANGED <<keyVars, kek, latest, log, locked, bakVars, faults, handed, rotated, late>>

\* Mutant: a key already present takes what the archive says of it.
Overwrites(e) == rows' = [i \in Ids |-> IF rows[i].fp = e.fp
                                        THEN [rows[i] EXCEPT !.status = e.status] ELSE rows[i]]

Skips(e) == UNCHANGED rows

\* Skip a fingerprint SKM has; otherwise seal the private half for a new id.
RestoreKey(w) ==
  LET r == run[w] IN
  /\ r.pc = "restore"
  /\ \/ r.page = {} /\ Logs(w, [Free EXCEPT !.op = "restore"]) /\ UNCHANGED rows
     \/ \E e \in r.page :
          LET rest == [r EXCEPT !.page = @ \ {e}] IN
          IF RowOf(e.fp) # {} THEN Skips(e) /\ Moves(w, rest)
          ELSE /\ UNCHANGED rows
               /\ Moves(w, IF e.pem /\ kek = 0 THEN rest
                           ELSE [rest EXCEPT !.pc = "insert", !.fp = e.fp,
                                   !.status = e.status, !.ver = IF e.pem THEN kek ELSE 0])
  /\ UNCHANGED <<inserted, material, assigned, kek, latest, log, locked, bakVars, ops,
                 faults, handed, rotated, late>>

\* Delete, or the pruning tick, which spares what failed: the file first.
RemoveArchive(w, n) ==
  /\ backups[n] # NoBackup
  /\ \/ Begins(w, "unbackup")
     \/ Begins(w, "prune") /\ backups[n].expires /\ backups[n].state # "failed"
  /\ files' = [files EXCEPT ![n] = NoFile]
  /\ removed' = removed \cup {n}
  /\ Moves(w, [Free EXCEPT !.pc = "droprow", !.op = "unbackup", !.name = n])
  /\ UNCHANGED <<keyVars, kek, latest, log, locked, backups, faults, handed, rotated, late>>

DropBackup(w) ==
  LET r == run[w] IN
  /\ r.pc = "droprow"
  /\ backups' = [backups EXCEPT ![r.name] = NoBackup]
  /\ Moves(w, Free)
  /\ UNCHANGED <<keyVars, kek, latest, log, locked, files, removed, ops, faults,
                 handed, rotated, late>>

-----------------------------------------------------------------------------
\* The process dies, every request with it, and starts again.
Crash ==
  /\ Fault("crash") /\ kek > 0
  /\ run' = [w \in Workers |-> Free]
  /\ kek' = 0 /\ locked' = Nobody
  /\ UNCHANGED <<keyVars, latest, log, bakVars, ops, handed, rotated, late>>

Step(w) ==
  \/ ReadHead(w) \/ AppendRecord(w) \/ LogFails(w)
  \/ InsertKey(w) \/ HandOver(w) \/ DestroyMaterial(w) \/ EraseKey(w)
  \/ Promote(w) \/ Activate(w) \/ Demote(w)
  \/ ListOld(w) \/ Rewrap(w) \/ StoreMaterial(w)
  \/ ListKeys(w) \/ ExportKey(w) \/ WriteArchive(w) \/ CompleteBackup(w) \/ FailBackup(w)
  \/ MarkVerified(w) \/ RestoreKey(w) \/ DropBackup(w)

Request(w) ==
  \/ \E fp \in Prints : BeginCreate(w, fp)
  \/ \E i \in Ids : \/ RequestReveal(w, i) \/ SetStatus(w, i) \/ ReadForProof(w, i)
                    \/ BeginDelete(w, i) \/ BeginRetirement(w, i)
                    \/ \E j \in Ids : BeginPromotion(w, i, j)
  \/ BeginRotateKEK(w)
  \/ \E n \in Names : \/ \E kind \in {"full", "metadata"} : BeginBackup(w, n, kind)
                      \/ BeginVerify(w, n) \/ BeginRestore(w, n) \/ RemoveArchive(w, n)

Next ==
  \/ \E w \in Workers : Step(w) \/ Request(w)
  \/ \E i \in Ids : Assign(i)
  \/ Unseal \/ Crash

Spec == Init /\ [][Next]_vars

-----------------------------------------------------------------------------
Labels == {"none", "generate", "import", "reveal", "status", "prove", "rotation", "delete",
           "rotate", "backup", "verify", "restore", "unbackup"}

Runs == [pc: {"idle", "log", "append", "insert", "open", "promote", "activate", "demote", "shred", "erase",
              "list", "rewrap", "store", "page", "export", "write", "complete", "fail",
              "mark", "restore", "droprow"},
         op: Labels,
         id: 0 .. MaxRows, name: Names \cup {"none"}, ver: 0 .. MaxKek,
         status: Statuses \cup {"none", "full", "metadata"}, fp: Prints \cup {"none"},
         head: Nat, todo: SUBSET Ids,
         page: SUBSET (Entry \cup [id: Ids, fp: Prints, status: Statuses, private: BOOLEAN]),
         out: SUBSET Entry]

TypeOK ==
  /\ rows \in [Ids -> KeyRow] /\ inserted \in 0 .. MaxRows
  /\ material \in [Ids -> 0 .. MaxKek] /\ assigned \subseteq Ids
  /\ kek \in 0 .. MaxKek /\ latest \in 1 .. MaxKek
  /\ log \in Seq([what: Labels, id: 0 .. MaxRows, prev: Nat])
  /\ locked \in Workers \cup {Nobody}
  /\ backups \in [Names -> {NoBackup} \cup
       [state: {"running", "completed", "failed", "verified"}, kind: {"full", "metadata"},
        expires: BOOLEAN, must: SUBSET Prints]]
  /\ files \in [Names -> {NoFile} \cup [kind: {"full", "metadata"}, keys: SUBSET Entry]]
  /\ run \in [Workers -> Runs]
  /\ ops \in 0 .. MaxOps /\ faults \in 0 .. MaxFaults
  /\ handed \subseteq [id: Ids, rec: Nat]
  /\ rotated \in 0 .. MaxKek /\ late \subseteq Ids /\ removed \subseteq Names

\* Every record links to the one before it, whoever appended at the same time
\* and wherever an append was cut short: Verify finds the chain whole.
ChainLinked == \A n \in DOMAIN log : log[n].prev = n - 1

Records(h) == h.rec \in DOMAIN log /\ log[h.rec].what = "reveal" /\ log[h.rec].id = h.id

\* No private key is handed out without a record of its own, written before
\* ("there is no path by which key material leaves the vault unrecorded").
RevealIsRecorded ==
  /\ \A h \in handed : Records(h)
  /\ \A w \in Workers : run[w].pc = "open" =>
       LET h == [id |-> run[w].id, rec |-> run[w].head] IN
       /\ Records(h) /\ h \notin handed
       /\ \A v \in Workers \ {w} : run[v].pc = "open" => run[v].head # h.rec

\* has_private_key never promises material that is not there, whatever is
\* created, restored, rewrapped and destroyed at once.
PrivateMeansMaterial == \A i \in Ids : rows[i].private => material[i] > 0

\* Once RotateKEK has returned, what is still under an older KEK was in flight
\* when the newer one was unsealed: the old one can be dropped after a second run.
RotatedMeansRewrapped == \A i \in Ids : material[i] \in 1 .. rotated - 1 => i \in late

\* A completed archive is there until it is removed, and a full one holds the
\* private half of every key that had one from the request to the end and was on
\* the page the request listed (backup.go:230 asks for 5000 keys, and List
\* answers with the newest 100).
ArchiveHoldsKeys ==
  \A n \in Names : backups[n].state \in {"completed", "verified"} /\ n \notin removed =>
    /\ files[n] # NoFile
    /\ backups[n].kind = "full" =>
         \A fp \in backups[n].must : \E e \in files[n].keys : e.fp = fp /\ e.pem

Promoting(i) == \E w \in Workers : run[w].pc = "promote" /\ run[w].id = i
                                   /\ run[w].status = "pending"

Ordered(i) == \E w \in Workers :
  run[w].pc = "idle" /\ run'[w].op = "status" /\ run'[w].id = i

Rotating(i) == \E w \in Workers : \/ run[w].pc = "activate" /\ run[w].id = i
                                  \/ run[w].pc = "demote" /\ i \in run[w].todo

\* A revoked key is brought back by an operator's order for that key, by a
\* deployment that had read it pending, or by a rotation that promotes, demotes or
\* retires it (rotation.go:826 reads no status), and by nothing else: Restore skips
\* what exists, because a restore would be "a way to reintroduce a revoked key".
RevokedStaysRevoked ==
  [][\A i \in Ids :
       rows[i].status = "revoked" /\ rows'[i].status \notin {"revoked", "destroyed", "none"} =>
         Ordered(i) \/ Promoting(i) \/ Rotating(i)]_vars

=============================================================================
