----------------------- MODULE PostgresJobStoreProofs ------------------------
(* What the database and the disk hold, whatever the breaker does: the ids   *)
(* are minted once and in one place, so no job is in both; a source has one  *)
(* row at most; and what a method that answers has written is still there.   *)
EXTENDS PostgresJobStore, TLAPS

Told == {"import_terminal", "write_gsc_queries"}
Row == [source : Sources \cup {None}, fetched : BOOLEAN]
Work == [at : {"connected", "inserting", "succeeded", "resetting", "failing", "fallback"},
         op : Op, again : BOOLEAN]

\* Every id was minted, and no job is in two stores.
Stored ==
    /\ minted \in Nat
    /\ DOMAIN rows \subseteq 1 .. minted /\ DOMAIN disk \subseteq 1 .. minted
    /\ \A i \in DOMAIN rows : rows[i] \in Row

\* AcknowledgedIsKept, of one operation.
Kept(op) ==
    op.of \notin gone =>
        IF op.name = "import_terminal" THEN ImportsOf(op.of) # {}
        ELSE op.of \in DOMAIN rows /\ rows[op.of].fetched

\* What a caller knows: its operation is kept before it answers, and the disk only ever
\* gets operations that are not for the database alone.
Knows(x) ==
    x \in Work =>
        /\ x.at \in {"succeeded", "resetting"} /\ x.op.name \in Told => Kept(x.op)
        /\ x.at = "fallback" => x.op.name \notin Strict

Promises == promised \subseteq Op /\ \A op \in promised : op.name \in Told /\ Kept(op)

CallersKnow ==
    /\ caller \in [Callers -> {Idle} \cup Work]
    /\ \A c \in Callers : Knows(caller[c])

StoreInv == Stored /\ SourceImportedOnce /\ JobIsWhole /\ CallersKnow /\ Promises

-----------------------------------------------------------------------------
(* What a method does to a store.                                            *)

LEMMA Creates ==
    ASSUME NEW store, NEW op \in Op, op.name = "create"
    PROVE  /\ DOMAIN Result(store, op) = DOMAIN store \cup {minted + 1}
           /\ \A i \in DOMAIN store : Result(store, op)[i] = store[i]
           /\ minted + 1 \notin DOMAIN store => Result(store, op)[minted + 1] = Created
  <1>1. Result(store, op) = With(store, minted + 1, Created)
    BY DEF Result
  <1> QED
    BY <1>1 DEF With

LEMMA Imports ==
    ASSUME NEW store, NEW op \in Op, op.name = "import_terminal"
    PROVE  /\ DOMAIN Result(store, op) = DOMAIN store \cup {minted + 1}
           /\ \A i \in DOMAIN store : Result(store, op)[i] = store[i]
           /\ minted + 1 \notin DOMAIN store => Result(store, op)[minted + 1] = Import(op.of)
  <1>1. Result(store, op) = With(store, minted + 1, Import(op.of))
    BY DEF Result
  <1> QED
    BY <1>1 DEF With

LEMMA Deletes ==
    ASSUME NEW store, NEW op \in Op, op.name = "delete"
    PROVE  /\ DOMAIN Result(store, op) = DOMAIN store \ {op.of}
           /\ \A i \in DOMAIN store \ {op.of} : Result(store, op)[i] = store[i]
  BY DEF Result

LEMMA WritesOn ==
    ASSUME NEW store, NEW op \in Op, op.name \in {"work", "get"}, Found(store, op)
    PROVE  /\ DOMAIN Result(store, op) = DOMAIN store
           /\ \A i \in DOMAIN store : Result(store, op)[i] = store[i]
  <1>1. CASE op.name = "work"
    <2>1. Result(store, op) = With(store, op.of, Created) /\ op.of \in DOMAIN store
      BY <1>1 DEF Result, Found, OnJob
    <2> QED
      BY <2>1 DEF With
  <1>2. CASE op.name = "get"
    BY <1>2 DEF Result
  <1> QED
    BY <1>1, <1>2

LEMMA Fetches ==
    ASSUME NEW op \in Op, op.name = "write_gsc_queries", Stored, Found(rows, op)
    PROVE  /\ op.of \in DOMAIN rows
           /\ DOMAIN Result(rows, op) = DOMAIN rows
           /\ Result(rows, op)[op.of].fetched
           /\ \A i \in DOMAIN rows : /\ Result(rows, op)[i].source = rows[i].source
                                     /\ rows[i].fetched => Result(rows, op)[i].fetched
                                     /\ Result(rows, op)[i] \in Row
  <1>1. Result(rows, op) = [rows EXCEPT ![op.of] = [rows[op.of] EXCEPT !.fetched = TRUE]]
    BY DEF Result
  <1>2. op.of \in DOMAIN rows
    BY DEF Found, OnJob
  <1>3. \A i \in DOMAIN rows : rows[i] \in Row
    BY DEF Stored, Row
  <1> DEFINE row == [rows[op.of] EXCEPT !.fetched = TRUE]
  <1>4. /\ row \in Row
        /\ row.fetched = TRUE /\ row.source = rows[op.of].source
    BY <1>2, <1>3 DEF Row
  <1>5. /\ DOMAIN Result(rows, op) = DOMAIN rows
        /\ \A i \in DOMAIN rows : Result(rows, op)[i] = IF i = op.of THEN row ELSE rows[i]
    BY <1>1, <1>2
  <1> HIDE DEF row
  <1> QED
    BY <1>2, <1>3, <1>4, <1>5

LEMMA OpNames ==
    ASSUME NEW op \in Op
    PROVE  op.name \in {"create", "get", "import_terminal", "write_gsc_queries", "delete", "work"}
  BY DEF Op, OnJob

-----------------------------------------------------------------------------
(* What a transaction leaves behind.                                         *)

\* What was kept is kept.
Carried == \A op \in Op : op.name \in Told /\ Kept(op) => Kept(op)'

LEMMA SameRowsCarry ==
    ASSUME UNCHANGED <<rows, gone>>
    PROVE  Carried
  BY DEF Carried, Kept, ImportsOf

\* Rows that are only added, or get a fetch, carry.
LEMMA MoreRowsCarry ==
    ASSUME gone' = gone, DOMAIN rows \subseteq DOMAIN rows',
           \A i \in DOMAIN rows : /\ rows'[i].source = rows[i].source
                                  /\ rows[i].fetched => rows'[i].fetched
    PROVE  Carried
  <1> SUFFICES ASSUME NEW op \in Op, op.name \in Told, Kept(op), op.of \notin gone
               PROVE  IF op.name = "import_terminal" THEN ImportsOf(op.of)' # {}
                      ELSE op.of \in DOMAIN rows' /\ rows'[op.of].fetched
    BY DEF Carried, Kept
  <1>1. CASE op.name = "import_terminal"
    <2>1. PICK i \in DOMAIN rows : rows[i].source = op.of
      BY <1>1 DEF Kept, ImportsOf
    <2>2. i \in ImportsOf(op.of)'
      BY <2>1 DEF ImportsOf
    <2> QED
      BY <1>1, <2>2
  <1>2. CASE op.name # "import_terminal"
    BY <1>2 DEF Kept
  <1> QED
    BY <1>1, <1>2

\* A row that is removed puts its id and its source among those that are gone.
LEMMA DeleteCarries ==
    ASSUME NEW id \in DOMAIN rows, gone' = gone \cup {id, rows[id].source},
           rows' = [i \in DOMAIN rows \ {id} |-> rows[i]]
    PROVE  Carried
  <1> SUFFICES ASSUME NEW op \in Op, op.name \in Told, Kept(op), op.of \notin gone'
               PROVE  IF op.name = "import_terminal" THEN ImportsOf(op.of)' # {}
                      ELSE op.of \in DOMAIN rows' /\ rows'[op.of].fetched
    BY DEF Carried, Kept
  <1>0. op.of \notin gone /\ op.of # id /\ op.of # rows[id].source
    OBVIOUS
  <1>1. CASE op.name = "import_terminal"
    <2>1. PICK i \in DOMAIN rows : rows[i].source = op.of
      BY <1>0, <1>1 DEF Kept, ImportsOf
    <2>2. i # id
      BY <1>0, <2>1
    <2>3. i \in ImportsOf(op.of)'
      BY <2>1, <2>2 DEF ImportsOf
    <2> QED
      BY <1>1, <2>3
  <1>2. CASE op.name # "import_terminal"
    BY <1>0, <1>2 DEF Kept
  <1> QED
    BY <1>1, <1>2

LEMMA StatementsKeep ==
    ASSUME StoreInv, NEW c \in Callers, NEW op \in Op, caller[c].op = op, Statements(c)
    PROVE  /\ Stored' /\ SourceImportedOnce' /\ JobIsWhole'
           /\ Carried
           /\ op.name \in Told => Kept(op)'
  <1>1. /\ Mint(op) /\ rows' = Result(rows, op) /\ disk' = disk
        /\ gone' = IF op.name = "delete" THEN gone \cup {op.of, rows[op.of].source} ELSE gone
        /\ IF op.name = "import_terminal" THEN FreshSource(op.of) ELSE Found(rows, op)
    BY DEF Statements, IsImport
  <1>2. /\ minted \in Nat /\ minted' \in Nat /\ minted <= minted'
        /\ Minting(op) => minted' = minted + 1 /\ minted' \in 1 .. minted'
    BY <1>1 DEF Mint, StoreInv, Stored
  <1>3. 1 .. minted \subseteq 1 .. minted' /\ minted + 1 \notin 1 .. minted
    BY <1>2
  <1>4. /\ DOMAIN rows \subseteq 1 .. minted /\ DOMAIN disk \subseteq 1 .. minted
        /\ \A i \in DOMAIN rows : rows[i] \in Row
        /\ DOMAIN rows \cap DOMAIN disk = {}
    BY DEF StoreInv, Stored, JobIsWhole
  <1>5. minted + 1 \notin DOMAIN rows /\ minted + 1 \notin DOMAIN disk
    BY <1>3, <1>4
  <1>6. CASE op.name = "create"
    <2>1. /\ DOMAIN rows' = DOMAIN rows \cup {minted + 1}
          /\ \A i \in DOMAIN rows : rows'[i] = rows[i]
          /\ rows'[minted + 1] = Created
      BY <1>1, <1>5, <1>6, Creates
    <2>2. Created \in Row /\ Created.source = None
      BY DEF Created, Row
    <2>3. minted' = minted + 1 /\ minted + 1 \in 1 .. minted'
      BY <1>2, <1>6 DEF Minting
    <2>4. Stored'
      BY <1>1, <1>2, <1>3, <1>4, <2>1, <2>2, <2>3 DEF Stored
    <2>5. SourceImportedOnce'
      BY <2>1, <2>2 DEF StoreInv, SourceImportedOnce
    <2>6. JobIsWhole'
      BY <1>1, <1>4, <1>5, <2>1 DEF JobIsWhole
    <2>7. gone' = gone
      BY <1>1, <1>6
    <2>8. Carried
      BY <2>1, <2>7, MoreRowsCarry
    <2> QED
      BY <1>6, <2>4, <2>5, <2>6, <2>8 DEF Told
  <1>7. CASE op.name = "import_terminal"
    <2>1. /\ DOMAIN rows' = DOMAIN rows \cup {minted + 1}
          /\ \A i \in DOMAIN rows : rows'[i] = rows[i]
          /\ rows'[minted + 1] = Import(op.of)
      BY <1>1, <1>5, <1>7, Imports
    <2>2. op.of \in Sources
      BY <1>7 DEF Op, OnJob
    <2>3. Import(op.of) \in Row /\ Import(op.of).source = op.of
      BY <2>2 DEF Import, Row
    <2>4. minted' = minted + 1 /\ minted + 1 \in 1 .. minted'
      BY <1>2, <1>7 DEF Minting
    <2>5. Stored'
      BY <1>1, <1>2, <1>3, <1>4, <2>1, <2>3, <2>4 DEF Stored
    <2>6. \A i \in DOMAIN rows : rows[i].source # op.of
      BY <1>1, <1>7 DEF FreshSource, ImportsOf
    <2>7. SourceImportedOnce'
      BY <2>1, <2>3, <2>6 DEF StoreInv, SourceImportedOnce
    <2>8. JobIsWhole'
      BY <1>1, <1>4, <1>5, <2>1 DEF JobIsWhole
    <2>9. gone' = gone
      BY <1>1, <1>7
    <2>10. Carried
      BY <2>1, <2>9, MoreRowsCarry
    <2>11. minted + 1 \in ImportsOf(op.of)'
      BY <2>1, <2>3 DEF ImportsOf
    <2>12. Kept(op)'
      BY <1>7, <2>11 DEF Kept
    <2> QED
      BY <2>5, <2>7, <2>8, <2>10, <2>12
  <1>8. CASE op.name = "delete"
    <2>1. rows' = [i \in DOMAIN rows \ {op.of} |-> rows[i]]
      BY <1>1, <1>8 DEF Result
    <2>2. op.of \in DOMAIN rows
      BY <1>1, <1>8 DEF Found, OnJob
    <2>3. Stored'
      BY <1>1, <1>2, <1>3, <1>4, <2>1 DEF Stored
    <2>4. SourceImportedOnce'
      BY <2>1 DEF StoreInv, SourceImportedOnce
    <2>5. JobIsWhole'
      BY <1>1, <1>4, <2>1 DEF JobIsWhole
    <2>6. gone' = gone \cup {op.of, rows[op.of].source}
      BY <1>1, <1>8
    <2>7. Carried
      BY <2>1, <2>2, <2>6, DeleteCarries
    <2> QED
      BY <1>8, <2>3, <2>4, <2>5, <2>7 DEF Told
  <1>9. CASE op.name = "write_gsc_queries"
    <2>1. /\ op.of \in DOMAIN rows
          /\ DOMAIN rows' = DOMAIN rows
          /\ rows'[op.of].fetched
          /\ \A i \in DOMAIN rows : /\ rows'[i].source = rows[i].source
                                    /\ rows[i].fetched => rows'[i].fetched
                                    /\ rows'[i] \in Row
      BY <1>1, <1>9, Fetches DEF StoreInv
    <2>2. Stored'
      BY <1>1, <1>2, <1>3, <1>4, <2>1 DEF Stored
    <2>3. SourceImportedOnce'
      BY <2>1 DEF StoreInv, SourceImportedOnce
    <2>4. JobIsWhole'
      BY <1>1, <1>4, <2>1 DEF JobIsWhole
    <2>5. gone' = gone
      BY <1>1, <1>9
    <2>6. Carried
      BY <2>1, <2>5, MoreRowsCarry
    <2>7. Kept(op)'
      BY <1>9, <2>1 DEF Kept
    <2> QED
      BY <2>2, <2>3, <2>4, <2>6, <2>7
  <1>10. CASE op.name \in {"work", "get"}
    <2>1. /\ DOMAIN rows' = DOMAIN rows
          /\ \A i \in DOMAIN rows : rows'[i] = rows[i]
      BY <1>1, <1>10, WritesOn
    <2>2. Stored'
      BY <1>1, <1>2, <1>3, <1>4, <2>1 DEF Stored
    <2>3. SourceImportedOnce'
      BY <2>1 DEF StoreInv, SourceImportedOnce
    <2>4. JobIsWhole'
      BY <1>1, <1>4, <2>1 DEF JobIsWhole
    <2>5. gone' = gone
      BY <1>1, <1>10
    <2>6. Carried
      BY <2>1, <2>5, MoreRowsCarry
    <2> QED
      BY <1>10, <2>2, <2>3, <2>4, <2>6 DEF Told
  <1> QED
    BY <1>6, <1>7, <1>8, <1>9, <1>10, OpNames

\* The same methods of the disk store: those for the database alone never get there.
LEMMA DiskKeeps ==
    ASSUME StoreInv, NEW op \in Op, op.name \notin Strict, Found(disk, op), Mint(op),
           disk' = Result(disk, op), rows' = rows
    PROVE  Stored' /\ SourceImportedOnce' /\ JobIsWhole'
  <1>1. /\ minted \in Nat /\ minted' \in Nat /\ minted <= minted'
        /\ Minting(op) => minted' = minted + 1 /\ minted' \in 1 .. minted'
    BY DEF Mint, StoreInv, Stored
  <1>2. 1 .. minted \subseteq 1 .. minted' /\ minted + 1 \notin 1 .. minted
    BY <1>1
  <1>3. /\ DOMAIN rows \subseteq 1 .. minted /\ DOMAIN disk \subseteq 1 .. minted
        /\ \A i \in DOMAIN rows : rows[i] \in Row
        /\ DOMAIN rows \cap DOMAIN disk = {}
    BY DEF StoreInv, Stored, JobIsWhole
  <1>4. minted + 1 \notin DOMAIN rows
    BY <1>2, <1>3
  <1>5. SourceImportedOnce'
    BY DEF StoreInv, SourceImportedOnce
  <1>6. CASE op.name = "create"
    <2>1. DOMAIN disk' = DOMAIN disk \cup {minted + 1}
      BY <1>6, Creates
    <2>2. minted + 1 \in 1 .. minted'
      BY <1>1, <1>6 DEF Minting
    <2> QED
      BY <1>1, <1>2, <1>3, <1>4, <1>5, <2>1, <2>2 DEF Stored, JobIsWhole
  <1>7. CASE op.name \in {"work", "get"}
    <2>1. DOMAIN disk' = DOMAIN disk
      BY <1>7, WritesOn
    <2> QED
      BY <1>1, <1>2, <1>3, <1>5, <2>1 DEF Stored, JobIsWhole
  <1> QED
    BY <1>6, <1>7, OpNames DEF Strict

-----------------------------------------------------------------------------
(* One step of one caller.                                                   *)

LEMMA CallerMoves ==
    ASSUME StoreInv, NEW c \in Callers, NEW x \in {Idle} \cup Work,
           caller' = [caller EXCEPT ![c] = x], Carried, Knows(x)'
    PROVE  CallersKnow'
  <1>1. caller' \in [Callers -> {Idle} \cup Work]
    BY DEF StoreInv, CallersKnow
  <1>2. ASSUME NEW k \in Callers PROVE Knows(caller[k])'
    <2>1. CASE k = c
      BY <2>1 DEF StoreInv, CallersKnow
    <2>2. CASE k # c
      <3>1. PICK y \in {Idle} \cup Work : y = caller[k]
        BY DEF StoreInv, CallersKnow
      <3>2. caller'[k] = y
        BY <2>2, <3>1 DEF StoreInv, CallersKnow
      <3>3. Knows(y)
        BY <3>1 DEF StoreInv, CallersKnow
      <3>4. Knows(y)'
        <4> SUFFICES ASSUME y \in Work
                     PROVE  /\ y.at \in {"succeeded", "resetting"} /\ y.op.name \in Told => Kept(y.op)'
                            /\ y.at = "fallback" => y.op.name \notin Strict
          BY DEF Knows
        <4>1. y.op \in Op
          BY DEF Work
        <4> QED
          BY <3>3, <4>1 DEF Knows, Carried
      <3> QED
        BY <3>2, <3>4
    <2> QED
      BY <2>1, <2>2
  <1> QED
    BY <1>1, <1>2 DEF CallersKnow

LEMMA PromisesCarry ==
    ASSUME StoreInv, Carried, promised' = promised
    PROVE  Promises'
  BY DEF StoreInv, Promises, Carried

LEMMA ReturnKeeps ==
    ASSUME StoreInv, NEW c \in Callers, Return(c), Carried
    PROVE  CallersKnow'
  <1>1. Idle \notin Work
    BY DEF Idle, Work
  <1> QED
    BY <1>1, CallerMoves DEF Return, Knows

\* A caller in the middle of a method.
LEMMA BusyCaller ==
    ASSUME StoreInv, NEW c \in Callers, caller[c].at # "idle"
    PROVE  /\ caller[c] \in Work
           /\ caller[c] = [at |-> caller[c].at, op |-> caller[c].op, again |-> caller[c].again]
           /\ Knows(caller[c])
  BY DEF StoreInv, CallersKnow, Idle, Work

LEMMA GoKeeps ==
    ASSUME StoreInv, NEW c \in Callers, caller[c].at # "idle", Carried,
           NEW step \in {"connected", "inserting", "succeeded", "resetting", "failing"},
           Go(c, step), NEW op \in Op, caller[c].op = op,
           step \in {"succeeded", "resetting"} /\ op.name \in Told => Kept(op)'
    PROVE  CallersKnow'
  <1>1. caller[c] \in Work /\ caller[c] = [at |-> caller[c].at, op |-> op, again |-> caller[c].again]
    BY BusyCaller
  <1>2. PICK again \in BOOLEAN : again = caller[c].again
    BY <1>1 DEF Work
  <1>3. PICK x \in Work : x = [at |-> step, op |-> op, again |-> again]
    BY DEF Work
  <1>4. caller' = [caller EXCEPT ![c] = x]
    <2>1. PICK y : y = caller[c] /\ y = [at |-> y.at, op |-> op, again |-> again]
      BY <1>1, <1>2
    <2>2. [y EXCEPT !.at = step] = x
      BY <1>3, <2>1
    <2>3. caller' = [caller EXCEPT ![c] = [y EXCEPT !.at = step]]
      BY <2>1 DEF Go
    <2> QED
      BY <2>2, <2>3
  <1>5. Knows(x)'
    BY <1>3 DEF Knows
  <1> QED
    BY <1>4, <1>5, CallerMoves

LEMMA RefuseKeeps ==
    ASSUME StoreInv, NEW c \in Callers, NEW op \in Op, Refuse(c, op), Carried
    PROVE  CallersKnow'
  <1>1. CASE op.name \in Strict
    BY <1>1, ReturnKeeps DEF Refuse
  <1>2. CASE op.name \notin Strict
    <2>1. PICK x \in Work : x = [at |-> "fallback", op |-> op, again |-> FALSE]
      BY DEF Work
    <2>2. Knows(x)'
      BY <1>2, <2>1 DEF Knows
    <2> QED
      BY <1>2, <2>1, <2>2, CallerMoves DEF Refuse
  <1> QED
    BY <1>1, <1>2

LEMMA FailKeeps ==
    ASSUME StoreInv, NEW c \in Callers, caller[c].at # "idle", Fail(c), Carried
    PROVE  CallersKnow'
  <1>1. PICK op \in Op : op = caller[c].op
    BY BusyCaller DEF Work
  <1> QED
    BY <1>1, GoKeeps, ReturnKeeps DEF Fail

\* What an answer promises is kept.
LEMMA AcknowledgeKeeps ==
    ASSUME StoreInv, NEW c \in Callers, Acknowledge(c), Carried,
           NEW op \in Op, caller[c].op = op, op.name \in Told => Kept(op)'
    PROVE  CallersKnow' /\ Promises'
  <1>1. CallersKnow'
    BY ReturnKeeps DEF Acknowledge
  <1>2. \/ promised' = promised
        \/ op.name \in Told /\ promised' = promised \cup {op}
    BY DEF Acknowledge, Told
  <1>3. \A o \in promised : o \in Op /\ o.name \in Told /\ Kept(o)'
    BY DEF StoreInv, Promises, Carried
  <1>4. Promises'
    BY <1>2, <1>3 DEF Promises
  <1> QED
    BY <1>1, <1>4

-----------------------------------------------------------------------------
(* Every step.                                                               *)

LEMMA SameStores ==
    ASSUME StoreInv, UNCHANGED <<rows, disk, minted>>
    PROVE  Stored' /\ SourceImportedOnce' /\ JobIsWhole'
  BY DEF StoreInv, Stored, SourceImportedOnce, JobIsWhole

LEMMA CallKeeps ==
    ASSUME StoreInv, NEW c \in Callers, NEW op \in Op, Call(c, op)
    PROVE  StoreInv'
  <1>1. UNCHANGED <<rows, disk, minted, gone, promised>>
    BY DEF Call, stores
  <1>2. Carried
    BY <1>1, SameRowsCarry
  <1>3. CallersKnow'
    <2>1. CASE Admit(c, op)
      <3>1. PICK x \in Work : x = [at |-> "connected", op |-> op, again |-> FALSE]
        BY DEF Work
      <3>2. Knows(x)'
        BY <3>1 DEF Knows
      <3> QED
        BY <1>2, <2>1, <3>1, <3>2, CallerMoves DEF Admit
    <2>2. CASE Refuse(c, op)
      BY <1>2, <2>2, RefuseKeeps
    <2> QED
      BY <2>1, <2>2 DEF Call
  <1> QED
    BY <1>1, <1>2, <1>3, SameStores, PromisesCarry DEF StoreInv

LEMMA StepKeeps ==
    ASSUME StoreInv, NEW c \in Callers, Step(c)
    PROVE  StoreInv'
  <1>0. caller[c].at # "idle"
    BY DEF Step, RollBack, LookUp, UniqueViolation, Commit, CommitUnheard, Statements,
           ConnectionFails, RecordFailure, RecordSuccess, ResetCount, Fallback, FallbackFails
  <1>1. PICK op \in Op : op = caller[c].op
    BY <1>0, BusyCaller DEF Work
  <1>2. Knows(caller[c]) /\ caller[c] \in Work
    BY <1>0, BusyCaller
  <1>3. ASSUME UNCHANGED <<stores, promised>>, CallersKnow'
        PROVE  StoreInv'
    <2>1. Carried
      BY <1>3, SameRowsCarry DEF stores
    <2> QED
      BY <1>3, <2>1, SameStores, PromisesCarry DEF stores, StoreInv
  <1>4. ASSUME UNCHANGED stores
        PROVE  Carried
    BY <1>4, SameRowsCarry DEF stores
  <1>5. CASE RollBack(c)
    BY <1>3, <1>4, <1>5, ReturnKeeps DEF RollBack
  <1>6. CASE LookUp(c)
    <2>1. UNCHANGED <<stores, promised>>
      BY <1>6 DEF LookUp
    <2>2. CASE Return(c)
      BY <1>3, <1>4, <2>1, <2>2, ReturnKeeps
    <2>3. CASE Go(c, "inserting")
      BY <1>0, <1>1, <1>3, <1>4, <2>1, <2>3, GoKeeps
    <2>4. CASE Go(c, "succeeded") /\ ~FreshSource(op.of) /\ op.name = "import_terminal"
      <3>1. Kept(op)
        BY <2>4 DEF FreshSource, Kept
      <3>2. Kept(op)'
        BY <1>4, <2>1, <2>4, <3>1 DEF Carried, Told
      <3> QED
        BY <1>0, <1>1, <1>3, <1>4, <2>1, <2>4, <3>2, GoKeeps
    <2> QED
      BY <1>1, <1>6, <2>2, <2>3, <2>4 DEF LookUp, IsImport
  <1>7. CASE UniqueViolation(c)
    <2>1. UNCHANGED <<stores, promised>>
      BY <1>7 DEF UniqueViolation
    <2>2. CASE Return(c)
      BY <1>3, <1>4, <2>1, <2>2, ReturnKeeps
    <2>3. CASE caller' = [caller EXCEPT ![c] = [at |-> "connected", op |-> caller[c].op, again |-> TRUE]]
      <3>1. PICK x \in Work : x = [at |-> "connected", op |-> op, again |-> TRUE]
        BY DEF Work
      <3>3. caller' = [caller EXCEPT ![c] = x]
        BY <1>1, <2>3, <3>1
      <3>4. Knows(x)'
        BY <3>1 DEF Knows
      <3> QED
        BY <1>3, <1>4, <2>1, <3>3, <3>4, CallerMoves
    <2> QED
      BY <1>7, <2>2, <2>3 DEF UniqueViolation
  <1>8. CASE Commit(c)
    <2>1. /\ Stored' /\ SourceImportedOnce' /\ JobIsWhole' /\ Carried
          /\ op.name \in Told => Kept(op)'
      BY <1>1, <1>8, StatementsKeep DEF Commit
    <2>2. CallersKnow'
      BY <1>0, <1>1, <1>8, <2>1, GoKeeps DEF Commit
    <2>3. Promises'
      BY <1>8, <2>1, PromisesCarry DEF Commit
    <2> QED
      BY <2>1, <2>2, <2>3 DEF StoreInv
  <1>9. CASE CommitUnheard(c)
    <2>1. Stored' /\ SourceImportedOnce' /\ JobIsWhole' /\ Carried
      BY <1>1, <1>9, StatementsKeep DEF CommitUnheard
    <2>2. CallersKnow'
      BY <1>0, <1>9, <2>1, FailKeeps DEF CommitUnheard
    <2>3. Promises'
      BY <1>9, <2>1, PromisesCarry DEF CommitUnheard
    <2> QED
      BY <2>1, <2>2, <2>3 DEF StoreInv
  <1>10. CASE ConnectionFails(c)
    BY <1>0, <1>3, <1>4, <1>10, FailKeeps DEF ConnectionFails
  <1>11. CASE RecordFailure(c)
    BY <1>1, <1>3, <1>4, <1>11, ReturnKeeps, RefuseKeeps DEF RecordFailure
  <1>12. CASE RecordSuccess(c)
    <2>1. UNCHANGED stores /\ Carried
      BY <1>4, <1>12 DEF RecordSuccess
    <2>2. op.name \in Told => Kept(op)'
      BY <1>1, <1>2, <1>12, <2>1 DEF RecordSuccess, Knows, Carried
    <2>3. CASE Go(c, "resetting") /\ UNCHANGED promised
      BY <1>0, <1>1, <1>3, <2>1, <2>2, <2>3, GoKeeps
    <2>4. CASE Acknowledge(c)
      <3>1. CallersKnow' /\ Promises'
        BY <1>1, <2>1, <2>2, <2>4, AcknowledgeKeeps
      <3> QED
        BY <2>1, <3>1, SameStores DEF StoreInv, stores
    <2> QED
      BY <1>12, <2>3, <2>4 DEF RecordSuccess
  <1>13. CASE ResetCount(c)
    <2>1. UNCHANGED stores /\ Carried
      BY <1>4, <1>13 DEF ResetCount
    <2>2. op.name \in Told => Kept(op)'
      BY <1>1, <1>2, <1>13, <2>1 DEF ResetCount, Knows, Carried
    <2>3. CallersKnow' /\ Promises'
      BY <1>1, <1>13, <2>1, <2>2, AcknowledgeKeeps DEF ResetCount
    <2> QED
      BY <2>1, <2>3, SameStores DEF StoreInv, stores
  <1>14. CASE Fallback(c)
    <2>1. op.name \notin Strict
      BY <1>1, <1>2, <1>14 DEF Fallback, Knows
    <2>2. Stored' /\ SourceImportedOnce' /\ JobIsWhole'
      BY <1>1, <1>14, <2>1, DiskKeeps DEF Fallback
    <2>3. Carried
      BY <1>14, SameRowsCarry DEF Fallback
    <2>4. op.name \notin Told
      BY <2>1 DEF Told, Strict
    <2>5. CallersKnow' /\ Promises'
      BY <1>1, <1>14, <2>3, <2>4, AcknowledgeKeeps DEF Fallback
    <2> QED
      BY <2>2, <2>5 DEF StoreInv
  <1>15. CASE FallbackFails(c)
    BY <1>3, <1>4, <1>15, ReturnKeeps DEF FallbackFails
  <1> QED
    BY <1>5, <1>6, <1>7, <1>8, <1>9, <1>10, <1>11, <1>12, <1>13, <1>14, <1>15 DEF Step

\* The world outside: only a redeploy touches a store, and it wipes the disk.
LEMMA WorldKeeps ==
    ASSUME StoreInv, GoesDown \/ ComesBack \/ TimePasses \/ Restart \/ UNCHANGED vars
    PROVE  StoreInv'
  <1>1. UNCHANGED <<rows, minted, gone, promised>>
    BY DEF GoesDown, ComesBack, TimePasses, Restart, vars, stores
  <1>2. Carried
    BY <1>1, SameRowsCarry
  <1>3. Promises'
    BY <1>1, <1>2, PromisesCarry
  <1>4. CASE Restart
    <2>1. DOMAIN disk' \subseteq DOMAIN disk
      BY <1>4 DEF Restart
    <2>2. Stored' /\ SourceImportedOnce' /\ JobIsWhole'
      BY <1>1, <2>1 DEF StoreInv, Stored, SourceImportedOnce, JobIsWhole
    <2>3. Idle \notin Work /\ caller' = [c \in Callers |-> Idle]
      BY <1>4 DEF Idle, Work, Restart
    <2>4. CallersKnow'
      BY <2>3 DEF CallersKnow, Knows
    <2> QED
      BY <1>3, <2>2, <2>4 DEF StoreInv
  <1>5. CASE GoesDown \/ ComesBack \/ TimePasses \/ UNCHANGED vars
    <2>1. UNCHANGED <<disk, caller>>
      BY <1>5 DEF GoesDown, ComesBack, TimePasses, vars, stores
    <2>2. CallersKnow'
      BY <1>1, <2>1 DEF StoreInv, CallersKnow, Knows, Kept, ImportsOf
    <2> QED
      BY <1>1, <1>3, <2>1, <2>2, SameStores DEF StoreInv
  <1> QED
    BY <1>4, <1>5

\* Every id is minted once and held by one store, every caller has one of its steps, and
\* what a caller is about to answer, or has answered, is kept.
THEOREM StoreInvariant == Spec => []StoreInv
  <1>1. Init => StoreInv
    <2> SUFFICES ASSUME Init PROVE StoreInv
      OBVIOUS
    <2>1. DOMAIN rows = {} /\ DOMAIN disk = {} /\ minted = 0 /\ promised = {}
      BY DEF Init
    <2>2. Idle \notin Work /\ caller = [c \in Callers |-> Idle]
      BY DEF Init, Idle, Work
    <2> QED
      BY <2>1, <2>2 DEF StoreInv, Stored, SourceImportedOnce, JobIsWhole, CallersKnow, Knows, Promises
  <1>2. StoreInv /\ [Next]_vars => StoreInv'
    BY CallKeeps, StepKeeps, WorldKeeps DEF Next
  <1> QED
    BY <1>1, <1>2, PTL DEF Spec

\* Two imports of one source, however they race, repeat or lose their COMMIT, leave one job.
THEOREM ImportsAreSingle == Spec => []SourceImportedOnce
  BY StoreInvariant, PTL DEF StoreInv

\* An outage never splits a job between the database and the disk.
THEOREM JobsStayWhole == Spec => []JobIsWhole
  BY StoreInvariant, PTL DEF StoreInv

\* What a client was told is saved is in the database, through every outage and redeploy.
THEOREM PromisesAreKept == Spec => []AcknowledgedIsKept
  <1>1. StoreInv => AcknowledgedIsKept
    BY DEF StoreInv, Promises, Kept, AcknowledgedIsKept
  <1> QED
    BY <1>1, StoreInvariant, PTL
=============================================================================
