--------------------------- MODULE SessionsProofs ----------------------------
(* Theorems about Sessions, for every value of its constants.              *)
EXTENDS Sessions, SequenceTheorems, TLAPS

-----------------------------------------------------------------------------
(* Lemmas about lists and operations.                                      *)

\* The lists are the sequences of handles that are not too long.
LEMMA ListsAre == \A s : s \in Lists <=> s \in Seq(Handles) /\ Len(s) <= MaxLen
<1>1. ASSUME NEW s \in Lists
      PROVE  s \in Seq(Handles) /\ Len(s) <= MaxLen
  <2>1. PICK n \in 0 .. MaxLen : s \in [1 .. n -> Handles]
    BY DEF Lists
  <2>2. n \in Nat
    BY <2>1, SessionsAssumption
  <2>3. s \in Seq(Handles)
    BY <2>1, <2>2, SeqDef
  <2>4. Len(s) = n
    BY <2>1, <2>2, <2>3, LenProperties
  <2>5. QED
    BY <2>1, <2>3, <2>4, SessionsAssumption
<1>2. ASSUME NEW s \in Seq(Handles), Len(s) <= MaxLen
      PROVE  s \in Lists
  <2>1. Len(s) \in 0 .. MaxLen /\ s \in [1 .. Len(s) -> Handles]
    BY <1>2, LenProperties, SessionsAssumption
  <2>2. QED
    BY <2>1 DEF Lists
<1>3. QED
  BY <1>1, <1>2

\* A list with room for one more may be appended to.
LEMMA AppendList ==
  ASSUME NEW s \in Lists, NEW h \in Handles, Len(s) < MaxLen
  PROVE  Append(s, h) \in Lists
<1>1. s \in Seq(Handles)
  BY ListsAre
<1>2. Append(s, h) \in Seq(Handles) /\ Len(Append(s, h)) = Len(s) + 1
  BY <1>1, AppendProperties
<1>3. Len(s) \in Nat /\ MaxLen \in Nat
  BY <1>1, LenProperties, SessionsAssumption
<1>4. Len(Append(s, h)) <= MaxLen
  BY <1>2, <1>3
<1>5. QED
  BY <1>2, <1>4, ListsAre, Zenon

\* A prefix of a list is a list.
LEMMA PrefixList ==
  ASSUME NEW s \in Lists, NEW k \in 0 .. Len(s)
  PROVE  Prefix(s, k) \in Lists
<1>1. s \in Seq(Handles) /\ Len(s) <= MaxLen /\ Len(s) \in Nat
  BY ListsAre, LenProperties
<1>2. SubSeq(s, 1, k) \in Seq(Handles) /\ Len(SubSeq(s, 1, k)) = k
  BY <1>1, SubSeqProperties
<1>3. Len(SubSeq(s, 1, k)) <= MaxLen
  BY <1>1, <1>2, SessionsAssumption
<1>4. QED
  BY <1>2, <1>3, ListsAre, Zenon DEF Prefix

\* The empty list is one.
LEMMA EmptyList == <<>> \in Lists
<1>1. <<>> \in Seq(Handles) /\ Len(<<>>) <= MaxLen
  BY SessionsAssumption
<1>2. QED
  BY <1>1, ListsAre, Zenon

\* An operation that begins is well formed.
LEMMA BeginType ==
  ASSUME TypeOK, NEW h \in Handles, NEW kind \in {"save", "fork"}, NEW dst \in Ids,
         NEW src \in Ids, NEW live \in BOOLEAN, NEW messages \in Lists,
         Begin(h, kind, dst, src, live, messages)
  PROVE  op' \in [Handles -> Operations \cup {Idle}]
<1>1. 0 \in Times
  BY SessionsAssumption DEF Times
<1>2. [kind |-> kind, dst |-> dst, src |-> src, live |-> live, messages |-> messages,
       created |-> 0, updated |-> 0] \in Operations
  BY <1>1 DEF Operations
<1>3. QED
  BY <1>2 DEF Begin, TypeOK

\* An operation under way has its fields.
LEMMA OpFields ==
  ASSUME TypeOK, NEW h \in Handles, op[h] # Idle
  PROVE  op[h] \in Operations
  BY DEF TypeOK

\* What a save writes is a list.
LEMMA SavedType ==
  ASSUME TypeOK, NEW h \in Handles, op[h] # Idle
  PROVE  ToSave(h) \in Lists /\ SavedList(h) \in Lists
  BY OpFields DEF ToSave, SavedList, TypeOK, Operations

\* A row made for a list is a row.
LEMMA RowType ==
  ASSUME TypeOK, NEW messages \in Lists, NEW previous \in Rows \cup {Absent}
  PROVE  RowFromSave(messages, previous) \in Rows
  BY DEF RowFromSave, Rows, TypeOK

\* So is the row that an operation writes.
LEMMA OpRowType ==
  ASSUME TypeOK, NEW h \in Handles, op[h] # Idle
  PROVE  OpRow(h) \in Rows
  BY OpFields DEF OpRow, Operations, Rows

-----------------------------------------------------------------------------
(* Types.                                                                  *)

\* The types hold initially.
LEMMA InitType == Init => TypeOK
  BY EmptyList, SessionsAssumption DEF Init, TypeOK, Times

\* Every step keeps the types.
LEMMA NextType == TypeOK /\ [Next]_vars => TypeOK'
<1> SUFFICES ASSUME TypeOK, [Next]_vars PROVE TypeOK'
  OBVIOUS
<1> USE DEF TypeOK
<1>1. CASE Tick
  BY <1>1, SessionsAssumption DEF Tick, Times
<1>2. CASE UNCHANGED vars
  BY <1>2 DEF vars
<1>3. ASSUME NEW h \in Handles, Append1(h) PROVE TypeOK'
  BY <1>3, AppendList DEF Append1
<1>4. ASSUME NEW h \in Handles, Clear(h) PROVE TypeOK'
  BY <1>4, EmptyList DEF Clear
<1>5. ASSUME NEW h \in Handles, Save(h) PROVE TypeOK'
  BY <1>5, EmptyList, BeginType DEF Save, Open
<1>6. ASSUME NEW h \in Handles, Delete(h) PROVE TypeOK'
  BY <1>6 DEF Delete, Open
<1>7. ASSUME NEW h \in Handles, NEW i \in Ids, Create(h, i) PROVE TypeOK'
  BY <1>7, EmptyList, BeginType DEF Create
<1>8. ASSUME NEW h \in Handles, NEW i \in Ids, Load(h, i) PROVE TypeOK'
  BY <1>8 DEF Load, Rows
<1>9. ASSUME NEW h \in Handles, NEW i \in Ids, Fork(h, i) PROVE TypeOK'
  BY <1>9, EmptyList, BeginType DEF Fork, Open
<1>10. ASSUME NEW h \in Handles, NEW i \in Ids, NEW k \in 0 .. MaxLen, ForkAt(h, i, k)
       PROVE  TypeOK'
  BY <1>10, PrefixList, BeginType DEF ForkAt, Open, ResolveCheckpoint
<1>11. ASSUME NEW h \in Handles, NEW k \in 0 .. MaxLen, ResumeFrom(h, k) PROVE TypeOK'
  BY <1>11, EmptyList, PrefixList, BeginType DEF ResumeFrom, Open, ResolveCheckpoint
<1>12. ASSUME NEW h \in Handles, MemorySave(h) PROVE TypeOK'
  <2>1. op[h] \in Operations /\ ToSave(h) \in Lists /\ op[h].dst \in Ids
    BY <1>12, SavedType DEF MemorySave, Operations
  <2>2. RowFromSave(ToSave(h), rows[op[h].dst]) \in Rows
    BY <2>1, RowType
  <2>3. QED
    BY <1>12, <2>1, <2>2 DEF MemorySave, Return
<1>13. ASSUME NEW h \in Handles, MemoryFork(h) PROVE TypeOK'
  <2>1. op[h] \in Operations /\ op[h].dst \in Ids /\ op[h].src \in Ids
    BY <1>13 DEF MemoryFork, Operations
  <2>2. [op[h] EXCEPT !.kind = "loading"] \in Operations
    BY <2>1 DEF Operations
  <2>3. rows[op[h].src] # Absent =>
          RowFromSave(rows[op[h].src].messages, Absent) \in Rows
    BY <2>1, RowType DEF Rows
  <2>4. QED
    BY <1>13, <2>1, <2>2, <2>3 DEF MemoryFork
<1>14. ASSUME NEW h \in Handles, SqliteSelect(h) PROVE TypeOK'
  <2> DEFINE row == RowFromSave(ToSave(h), rows[op[h].dst])
  <2>1. op[h] \in Operations /\ row \in Rows
    BY <1>14, SavedType, RowType DEF SqliteSelect, Operations
  <2>2. [op[h] EXCEPT !.kind = "saving", !.messages = row.messages,
                      !.created = row.created, !.updated = row.updated] \in Operations
    BY <2>1 DEF Operations, Rows
  <2>3. QED
    BY <1>14, <2>2 DEF SqliteSelect
<1>15. ASSUME NEW h \in Handles, SqliteUpsert(h) PROVE TypeOK'
  <2>1. op[h] \in Operations /\ op[h].dst \in Ids /\ OpRow(h) \in Rows /\ SavedList(h) \in Lists
    BY <1>15, OpRowType, SavedType DEF SqliteUpsert, Operations
  <2>2. rows[op[h].dst] # Absent =>
          [OpRow(h) EXCEPT !.created = rows[op[h].dst].created] \in Rows
    BY <2>1 DEF Rows
  <2>3. QED
    BY <1>15, <2>1, <2>2 DEF SqliteUpsert, Return
<1>16. ASSUME NEW h \in Handles, SqliteForkSelect(h) PROVE TypeOK'
  <2>1. op[h] \in Operations /\ op[h].src \in Ids
    BY <1>16 DEF SqliteForkSelect, Operations
  <2>2. rows[op[h].src] # Absent =>
          [op[h] EXCEPT !.kind = "forking", !.messages = rows[op[h].src].messages,
                        !.created = clock, !.updated = clock] \in Operations
    BY <2>1 DEF Operations, Rows
  <2>3. QED
    BY <1>16, <2>2 DEF SqliteForkSelect
<1>17. ASSUME NEW h \in Handles, SqliteForkInsert(h) PROVE TypeOK'
  <2>1. op[h] \in Operations /\ op[h].dst \in Ids /\ OpRow(h) \in Rows
    BY <1>17, OpRowType DEF SqliteForkInsert, Operations
  <2>2. [op[h] EXCEPT !.kind = "loading"] \in Operations
    BY <2>1 DEF Operations
  <2>3. QED
    BY <1>17, <2>1, <2>2 DEF SqliteForkInsert
<1>18. ASSUME NEW h \in Handles, ForkLoads(h) PROVE TypeOK'
  <2>1. op[h] \in Operations /\ op[h].dst \in Ids
    BY <1>18 DEF ForkLoads, Operations
  <2>2. QED
    BY <1>18, <2>1 DEF ForkLoads, Return, Rows
<1>19. QED
  BY <1>1, <1>2, <1>3, <1>4, <1>5, <1>6, <1>7, <1>8, <1>9, <1>10, <1>11, <1>12, <1>13,
     <1>14, <1>15, <1>16, <1>17, <1>18 DEF Next

\* The store, the handles and the operations stay well formed.
THEOREM SessionsTypes == Spec => []TypeOK
  BY InitType, NextType, PTL DEF Spec

-----------------------------------------------------------------------------
(* What concurrent operations do to a row.                                 *)

\* A step that leaves the rows alone, or touches only one that a handle may delete.
LEMMA RowsKept ==
  ASSUME [Next]_vars
  PROVE  \/ UNCHANGED rows
         \/ \E h \in Handles :
              \/ Delete(h) \/ MemorySave(h) \/ MemoryFork(h)
              \/ SqliteUpsert(h) \/ SqliteForkInsert(h)
<1> USE DEF Next, vars
<1>1. CASE UNCHANGED vars
  BY <1>1
<1>2. CASE Tick
  BY <1>2 DEF Tick
<1>3. ASSUME NEW h \in Handles,
             \/ Append1(h) \/ Clear(h) \/ Save(h)
             \/ \E i \in Ids : Create(h, i) \/ Load(h, i) \/ Fork(h, i)
             \/ \E i \in Ids, k \in 0 .. MaxLen : ForkAt(h, i, k)
             \/ \E k \in 0 .. MaxLen : ResumeFrom(h, k)
             \/ SqliteSelect(h) \/ SqliteForkSelect(h) \/ ForkLoads(h)
      PROVE  UNCHANGED rows
  BY <1>3 DEF Append1, Clear, Save, Create, Load, Fork, ForkAt, ResumeFrom, SqliteSelect,
              SqliteForkSelect, ForkLoads
<1>4. QED
  BY <1>1, <1>2, <1>3

\* A step that writes a row which is there keeps its created_at.
LEMMA StepKeepsCreated ==
  ASSUME TypeOK, [Next]_vars, NEW i \in Ids, rows[i] # Absent, rows'[i] # Absent
  PROVE  rows'[i].created = rows[i].created
<1>1. CASE UNCHANGED rows
  BY <1>1
<1>2. ASSUME NEW h \in Handles, Delete(h) PROVE rows'[i].created = rows[i].created
  BY <1>2 DEF Delete, Open, TypeOK
<1>3. ASSUME NEW h \in Handles, MemorySave(h) PROVE rows'[i].created = rows[i].created
  BY <1>3, OpFields DEF MemorySave, RowFromSave, Operations, TypeOK
<1>4. ASSUME NEW h \in Handles, MemoryFork(h) PROVE rows'[i].created = rows[i].created
  BY <1>4, OpFields DEF MemoryFork, Operations, TypeOK
<1>5. ASSUME NEW h \in Handles, SqliteUpsert(h) PROVE rows'[i].created = rows[i].created
  BY <1>5, OpFields DEF SqliteUpsert, OpRow, Operations, TypeOK
<1>6. ASSUME NEW h \in Handles, SqliteForkInsert(h) PROVE rows'[i].created = rows[i].created
  BY <1>6, OpFields DEF SqliteForkInsert, Operations, TypeOK
<1>7. QED
  BY <1>1, <1>2, <1>3, <1>4, <1>5, <1>6, RowsKept

\* Whatever the handles do to one row at once, its created_at is that of the save or fork
\* that made it: _save_sync's upsert leaves the column alone.
THEOREM CreationTimesStay == Spec => CreatedStable
<1>1. TypeOK /\ [Next]_vars =>
        [\A i \in Ids : (rows[i] # Absent /\ rows'[i] # Absent)
                          => rows'[i].created = rows[i].created]_vars
  BY StepKeepsCreated
<1>2. QED
  BY <1>1, SessionsTypes, PTL DEF Spec, CreatedStable

\* An operation that is under way is only moved on by the steps of its own handle.
LEMMA ForkSteps ==
  ASSUME TypeOK, [Next]_vars, NEW h \in Handles, op[h] # Idle,
         op[h].kind \in {"fork", "forking"}, op'[h] # op[h]
  PROVE  MemoryFork(h) \/ SqliteForkSelect(h) \/ SqliteForkInsert(h)
<1> USE DEF TypeOK
<1>1. ~UNCHANGED vars /\ ~Tick
  BY DEF vars, Tick
<1>2. PICK g \in Handles :
        \/ Append1(g) \/ Clear(g) \/ Save(g) \/ Delete(g)
        \/ \E i \in Ids : Create(g, i) \/ Load(g, i) \/ Fork(g, i)
        \/ \E i \in Ids, k \in 0 .. MaxLen : ForkAt(g, i, k)
        \/ \E k \in 0 .. MaxLen : ResumeFrom(g, k)
        \/ MemorySave(g) \/ MemoryFork(g)
        \/ SqliteSelect(g) \/ SqliteUpsert(g) \/ SqliteForkSelect(g) \/ SqliteForkInsert(g)
        \/ ForkLoads(g)
  BY <1>1 DEF Next
<1>3. ~(Append1(g) \/ Clear(g) \/ Delete(g) \/ \E i \in Ids : Load(g, i))
  BY DEF Append1, Clear, Delete, Load
<1>4. ~(\/ Save(g) \/ \E i \in Ids : Create(g, i) \/ Fork(g, i)
        \/ \E i \in Ids, k \in 0 .. MaxLen : ForkAt(g, i, k)
        \/ \E k \in 0 .. MaxLen : ResumeFrom(g, k))
  BY DEF Save, Create, Fork, ForkAt, ResumeFrom, Begin, Open, Free
<1>5. ~(MemorySave(g) \/ SqliteSelect(g) \/ SqliteUpsert(g) \/ ForkLoads(g))
  BY DEF MemorySave, SqliteSelect, SqliteUpsert, ForkLoads, Return
<1>6. g = h
  BY <1>2, <1>3, <1>4, <1>5 DEF MemoryFork, SqliteForkSelect, SqliteForkInsert
<1>7. QED
  BY <1>2, <1>3, <1>4, <1>5, <1>6

\* A step of a fork leaves every row as it was that was there.
LEMMA ForkStepKeepsRows ==
  ASSUME TypeOK, [Next]_vars, NEW h \in Handles, op[h] # Idle,
         op[h].kind \in {"fork", "forking"}, op'[h] # op[h],
         NEW i \in Ids, rows[i] # Absent
  PROVE  rows'[i] = rows[i]
<1>1. op[h] \in Operations
  BY OpFields
<1>2. CASE MemoryFork(h)
  BY <1>1, <1>2 DEF MemoryFork, Operations, TypeOK
<1>3. CASE SqliteForkSelect(h)
  BY <1>3 DEF SqliteForkSelect
<1>4. CASE SqliteForkInsert(h)
  BY <1>1, <1>4 DEF SqliteForkInsert, Operations, TypeOK
<1>5. QED
  BY <1>2, <1>3, <1>4, ForkSteps

\* However forks, saves and deletes cross each other, the store's fork never writes over a
\* session: _fork_sync's INSERT refuses an id that is taken.
THEOREM ForksNeverOverwrite == Spec => ForkNeverOverwrites
<1>1. TypeOK /\ [Next]_vars =>
        [\A h \in Handles :
           (op[h] # Idle /\ op[h].kind \in {"fork", "forking"} /\ op'[h] # op[h])
             => \A i \in Ids : rows[i] # Absent => rows'[i] = rows[i]]_vars
  BY ForkStepKeepsRows
<1>2. QED
  BY <1>1, SessionsTypes, PTL DEF Spec, ForkNeverOverwrites
=============================================================================
