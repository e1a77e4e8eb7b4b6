------------------------------ MODULE Sessions ------------------------------
(***************************************************************************)
(* Session handles over a SessionStore.  A handle (class Session) holds a  *)
(* list of messages of its own and writes the whole list when it is saved; *)
(* several handles may stand for one stored session.  The in-memory store  *)
(* does each operation under a lock.  The SQLite store does it in a worker *)
(* thread, one statement after the other, with nothing to hold others off. *)
(*                                                                         *)
(* Of the metadata only the two times are kept: created_at is what one     *)
(* save must keep of another, updated_at is taken before the row is there, *)
(* so that a row may even be updated before it was created: nothing in the *)
(* code promises otherwise.                                                *)
(***************************************************************************)
EXTENDS Naturals, Sequences

CONSTANTS
  Handles,    \* Session objects; one operation on the store at a time for each
  Ids,        \* session ids
  Backends,   \* a subset of {"memory", "sqlite"}
  MaxLen,     \* bound on the messages of a session
  MaxClock    \* bound on the clock

VARIABLES
  backend,  \* which store
  rows,     \* what is stored: Session rows, or Absent
  id,       \* the session a handle stands for, or NoId
  list,     \* the messages the handle holds
  op,       \* the store operation under way for the handle
  clock     \* _utcnow_iso

vars == <<backend, rows, id, list, op, clock>>

CONSTANTS Absent, NoId, Idle   \* model values

\* A message is named by the handle that appended it.
Lists == UNION {[1 .. n -> Handles] : n \in 0 .. MaxLen}
Times == 0 .. MaxClock
Rows  == [messages : Lists, created : Times, updated : Times]
Operations ==
  [kind : {"save", "saving", "fork", "forking", "loading"}, dst : Ids, src : Ids,
   live : BOOLEAN, messages : Lists, created : Times, updated : Times]

ASSUME SessionsAssumption ==
  /\ Backends \subseteq {"memory", "sqlite"}
  /\ MaxLen \in Nat /\ MaxClock \in Nat
  /\ NoId \notin Ids /\ Absent \notin Rows /\ Idle \notin Operations

Prefix(s, k) == SubSeq(s, 1, k)

Init ==
  /\ backend \in Backends
  /\ rows = [i \in Ids |-> Absent]
  /\ id = [h \in Handles |-> NoId] /\ list = [h \in Handles |-> <<>>]
  /\ op = [h \in Handles |-> Idle] /\ clock = 0

Free(h) == op[h] = Idle
Open(h) == Free(h) /\ id[h] # NoId

\* An operation: "save" and "fork" as called, "saving" and "forking" with what the first
\* statement read, "loading" the row just forked.  "live" says that the list to be saved is
\* the handle's own, which a caller may still append to; src is what a fork copies.
Begin(h, kind, dst, src, live, messages) ==
  op' = [op EXCEPT ![h] = [kind |-> kind, dst |-> dst, src |-> src, live |-> live,
                           messages |-> messages, created |-> 0, updated |-> 0]]

Tick == clock < MaxClock /\ clock' = clock + 1 /\ UNCHANGED <<backend, rows, id, list, op>>

\* A checkpoint out of range raises.
ResolveCheckpoint(h, k) == k \in 0 .. Len(list[h])

-----------------------------------------------------------------------------
(* The Session class.                                                      *)

\* create: an empty session, saved at once, over whatever has that id.
Create(h, i) ==
  /\ Free(h) /\ Begin(h, "save", i, i, FALSE, <<>>)
  /\ UNCHANGED <<backend, rows, id, list, clock>>

\* load and reload: one statement.  A session that is not stored raises.
Load(h, i) ==
  /\ Free(h) /\ rows[i] # Absent
  /\ id' = [id EXCEPT ![h] = i] /\ list' = [list EXCEPT ![h] = rows[i].messages]
  /\ UNCHANGED <<backend, rows, op, clock>>

\* append and extend, also while a save of the same handle is under way.
Append1(h) ==
  /\ id[h] # NoId /\ Len(list[h]) < MaxLen
  /\ list' = [list EXCEPT ![h] = Append(@, h)]
  /\ UNCHANGED <<backend, rows, id, op, clock>>

Clear(h) ==
  /\ id[h] # NoId /\ list[h] # <<>>
  /\ list' = [list EXCEPT ![h] = <<>>]
  /\ UNCHANGED <<backend, rows, id, op, clock>>

Save(h) ==
  /\ Open(h) /\ Begin(h, "save", id[h], id[h], TRUE, <<>>)
  /\ UNCHANGED <<backend, rows, id, list, clock>>

\* delete leaves the handle as it is, to be saved again.
Delete(h) ==
  /\ Open(h)
  /\ rows' = [rows EXCEPT ![id[h]] = Absent]
  /\ UNCHANGED <<backend, id, list, op, clock>>

\* fork at a checkpoint: a prefix of the handle's list is saved under the new id, and
\* nothing asks whether that id is taken.
ForkAt(h, new, k) ==
  /\ Open(h) /\ ResolveCheckpoint(h, k)
  /\ Begin(h, "save", new, id[h], FALSE, Prefix(list[h], k))
  /\ UNCHANGED <<backend, rows, id, list, clock>>

\* fork of it all: of what is stored, not of what the handle holds.
Fork(h, new) ==
  /\ Open(h) /\ Begin(h, "fork", new, id[h], FALSE, <<>>)
  /\ UNCHANGED <<backend, rows, id, list, clock>>

\* resume_from: truncate in place, then save.
ResumeFrom(h, k) ==
  /\ Open(h) /\ ResolveCheckpoint(h, k)
  /\ list' = [list EXCEPT ![h] = Prefix(@, k)]
  /\ Begin(h, "save", id[h], id[h], TRUE, <<>>)
  /\ UNCHANGED <<backend, rows, id, clock>>

\* The handle goes on with the session it saved.
Return(h, i, messages) ==
  /\ op' = [op EXCEPT ![h] = Idle]
  /\ id' = [id EXCEPT ![h] = i] /\ list' = [list EXCEPT ![h] = messages]

ToSave(h) == IF op[h].live THEN list[h] ELSE op[h].messages

-----------------------------------------------------------------------------
(* The in-memory store: each operation in one go, under the lock.          *)

\* _row_from_save: created_at is kept if there is a row, else it is now.
RowFromSave(messages, previous) ==
  [messages |-> messages,
   created  |-> IF previous = Absent THEN clock ELSE previous.created,
   updated  |-> clock]

MemorySave(h) ==
  /\ backend = "memory" /\ op[h] # Idle /\ op[h].kind = "save"
  /\ rows' = [rows EXCEPT ![op[h].dst] = RowFromSave(ToSave(h), @)]
  /\ Return(h, op[h].dst, ToSave(h))
  /\ UNCHANGED <<backend, clock>>

\* fork: no source raises, a target that exists raises.
MemoryFork(h) ==
  /\ backend = "memory" /\ op[h] # Idle /\ op[h].kind = "fork"
  /\ IF rows[op[h].src] # Absent /\ rows[op[h].dst] = Absent
     THEN /\ rows' = [rows EXCEPT ![op[h].dst] =
                        RowFromSave(rows[op[h].src].messages, Absent)]
          /\ op' = [op EXCEPT ![h].kind = "loading"]
     ELSE UNCHANGED rows /\ op' = [op EXCEPT ![h] = Idle]
  /\ UNCHANGED <<backend, id, list, clock>>

-----------------------------------------------------------------------------
(* The SQLite store: a statement a step.                                   *)

\* _save_sync: SELECT created_at, then make the row.
SqliteSelect(h) ==
  /\ backend = "sqlite" /\ op[h] # Idle /\ op[h].kind = "save"
  /\ LET row == RowFromSave(ToSave(h), rows[op[h].dst]) IN
     op' = [op EXCEPT ![h].kind = "saving", ![h].messages = row.messages,
                      ![h].created = row.created, ![h].updated = row.updated]
  /\ UNCHANGED <<backend, rows, id, list, clock>>

OpRow(h) ==
  [messages |-> op[h].messages, created |-> op[h].created, updated |-> op[h].updated]

\* The handle of a save keeps its own list, which may have grown meanwhile.
SavedList(h) == IF op[h].live THEN list[h] ELSE op[h].messages

\* [seeded fault] INSERT OR REPLACE: the row is replaced with all its columns.
SqliteReplace(h) ==
  /\ backend = "sqlite" /\ op[h] # Idle /\ op[h].kind = "saving"
  /\ rows' = [rows EXCEPT ![op[h].dst] = OpRow(h)]
  /\ Return(h, op[h].dst, SavedList(h))
  /\ UNCHANGED <<backend, clock>>

\* INSERT ... ON CONFLICT(id) DO UPDATE: every column but created_at.
SqliteUpsert(h) ==
  /\ backend = "sqlite" /\ op[h] # Idle /\ op[h].kind = "saving"
  /\ rows' = [rows EXCEPT ![op[h].dst] =
                IF @ = Absent THEN OpRow(h) ELSE [OpRow(h) EXCEPT !.created = rows[op[h].dst].created]]
  /\ Return(h, op[h].dst, SavedList(h))
  /\ UNCHANGED <<backend, clock>>

\* _fork_sync: SELECT the source, which raises if there is none.
SqliteForkSelect(h) ==
  /\ backend = "sqlite" /\ op[h] # Idle /\ op[h].kind = "fork"
  /\ op' = [op EXCEPT ![h] = IF rows[op[h].src] = Absent THEN Idle
                             ELSE [@ EXCEPT !.kind = "forking",
                                            !.messages = rows[op[h].src].messages,
                                            !.created = clock, !.updated = clock]]
  /\ UNCHANGED <<backend, rows, id, list, clock>>

\* [seeded fault] A fork upserts as a save does.
SqliteForkUpserts(h) ==
  /\ backend = "sqlite" /\ op[h] # Idle /\ op[h].kind = "forking"
  /\ rows' = [rows EXCEPT ![op[h].dst] =
                IF @ = Absent THEN OpRow(h) ELSE [OpRow(h) EXCEPT !.created = rows[op[h].dst].created]]
  /\ op' = [op EXCEPT ![h].kind = "loading"]
  /\ UNCHANGED <<backend, id, list, clock>>

\* INSERT: the primary key refuses an id that is taken.
SqliteForkInsert(h) ==
  /\ backend = "sqlite" /\ op[h] # Idle /\ op[h].kind = "forking"
  /\ IF rows[op[h].dst] = Absent
     THEN rows' = [rows EXCEPT ![op[h].dst] = OpRow(h)] /\ op' = [op EXCEPT ![h].kind = "loading"]
     ELSE UNCHANGED rows /\ op' = [op EXCEPT ![h] = Idle]
  /\ UNCHANGED <<backend, id, list, clock>>

\* Session.fork loads the row it made, which another handle may have deleted by then.
ForkLoads(h) ==
  /\ op[h] # Idle /\ op[h].kind = "loading"
  /\ IF rows[op[h].dst] = Absent
     THEN op' = [op EXCEPT ![h] = Idle] /\ UNCHANGED <<id, list>>
     ELSE Return(h, op[h].dst, rows[op[h].dst].messages)
  /\ UNCHANGED <<backend, rows, clock>>

-----------------------------------------------------------------------------
Next ==
  \/ Tick
  \/ \E h \in Handles :
       \/ Append1(h) \/ Clear(h) \/ Save(h) \/ Delete(h)
       \/ \E i \in Ids : Create(h, i) \/ Load(h, i) \/ Fork(h, i)
       \/ \E i \in Ids, k \in 0 .. MaxLen : ForkAt(h, i, k)
       \/ \E k \in 0 .. MaxLen : ResumeFrom(h, k)
       \/ MemorySave(h) \/ MemoryFork(h)
       \/ SqliteSelect(h) \/ SqliteUpsert(h) \/ SqliteForkSelect(h) \/ SqliteForkInsert(h)
       \/ ForkLoads(h)

Spec == Init /\ [][Next]_vars

-----------------------------------------------------------------------------
\* A row is whole: a list of messages and two times that have been.
TypeOK ==
  /\ backend \in Backends /\ clock \in Times
  /\ rows \in [Ids -> Rows \cup {Absent}]
  /\ id \in [Handles -> Ids \cup {NoId}] /\ list \in [Handles -> Lists]
  /\ op \in [Handles -> Operations \cup {Idle}]

\* Whatever saves and forks cross each other, a row keeps its created_at for as long as it
\* is there: neither the row that SELECT did not see nor the one it saw is re-dated.
CreatedStable ==
  [][\A i \in Ids : (rows[i] # Absent /\ rows'[i] # Absent)
                      => rows'[i].created = rows[i].created]_vars

\* Two forks to one id, or a fork and a save: the store's fork never touches what is there.
ForkNeverOverwrites ==
  [][\A h \in Handles :
       (op[h] # Idle /\ op[h].kind \in {"fork", "forking"} /\ op'[h] # op[h])
         => \A i \in Ids : rows[i] # Absent => rows'[i] = rows[i]]_vars
=============================================================================
