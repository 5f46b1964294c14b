---------------------------- MODULE StoreAdoption ----------------------------
(***************************************************************************)
(* sessions adopt (chaosbox/src/sessions/adopt.rs) records the hash, the   *)
(* schema, the counts and the health of a database file that writers may   *)
(* still be using: it takes no lock, it looks for holders and sidecars and *)
(* compares the file before and after.  A writer works in WAL mode: what   *)
(* it commits is in the sidecar until a checkpoint moves it into the main  *)
(* file.  There is no transaction around what the adopter reads: each of   *)
(* its statements sees the store of its own moment.                        *)
(***************************************************************************)
EXTENDS Naturals, FiniteSets, Sequences

CONSTANTS
  Writer,        \* processes that may open the store
  Adopter,       \* processes that adopt it
  Image,         \* database contents, see ImageType
  MaxWrites      \* bound: commits to the store

ASSUME AdoptionAssumption == MaxWrites \in Nat

VARIABLES
  store,         \* the database file and its sidecars
  holders,       \* writers with the store open
  adopter,       \* the adopting processes
  record,        \* the published adoption record, {} or a singleton
  temporary      \* adopters whose temporary file is on disk

adoptionVars == <<store, holders, adopter, record, temporary>>

\* What schema_info, session_counts and health read of an image.
ImageType == [id : Nat, marker : {"v1", "v2", "unrecognized"}, messages : BOOLEAN,
              sound : BOOLEAN, linked : BOOLEAN]

\* Their statements, in the order they are executed.
Statement ==
  <<"tables", "user_version", "sessions", "messages", "quick_check", "foreign_key_check">>

\* The file is looked at in pieces and the store in statements: hash holds the
\* images whose bytes were hashed, seen the image each statement read.  What
\* the main file was at the statements (file), and how many commits there had
\* been when the sidecars were looked for (began) and at the last statement
\* (ended), is history: adopt does not know it.
NoView == [pc |-> "idle", held |-> FALSE, stamp |-> {}, hash |-> {}, seen |-> <<>>,
           file |-> {}, began |-> 0, ended |-> 0]

\* What a connection sees: the sidecar, where there is one, over the main file.
Logical == IF store.wal = {} THEN store.main ELSE store.wal

AdopterAt(a, pc) == adopter[a].pc = pc
Connected(a) == AdopterAt(a, "read") /\ adopter[a].seen # <<>>
Moves(a, pc) == adopter' = [adopter EXCEPT ![a].pc = pc]
Refuses(a) == adopter' = [adopter EXCEPT ![a] = NoView]

-----------------------------------------------------------------------------
(* The writers: SQLite in another process.                                  *)

OpenStore(w) ==
  /\ w \notin holders
  /\ holders' = holders \cup {w}
  /\ UNCHANGED <<store, adopter, record, temporary>>

CommitStore(w) ==
  /\ w \in holders /\ store.writes < MaxWrites
  /\ \E i \in Image :
       /\ {i} # Logical
       /\ store' = [store EXCEPT !.wal = {i}, !.writes = @ + 1]
  /\ UNCHANGED <<holders, adopter, record, temporary>>

\* A checkpoint writes the main file, whose modification time moves.
CheckpointStore(w) ==
  /\ w \in holders /\ store.wal \notin {{}, store.main}
  /\ store' = [store EXCEPT !.main = store.wal, !.stamp = @ + 1]
  /\ UNCHANGED <<holders, adopter, record, temporary>>

\* The last connection checkpoints and removes the sidecar; a reader that is
\* still connected keeps both from happening.
CloseStore(w) ==
  /\ w \in holders
  /\ holders' = holders \ {w}
  /\ IF holders = {w} /\ store.wal # {} /\ \A a \in Adopter : ~ Connected(a)
       THEN store' = [store EXCEPT !.main = store.wal, !.wal = {},
                                   !.stamp = IF store.wal = store.main THEN @ ELSE @ + 1]
       ELSE UNCHANGED store
  /\ UNCHANGED <<adopter, record, temporary>>

CrashStore(w) ==
  /\ w \in holders
  /\ holders' = holders \ {w}
  /\ UNCHANGED <<store, adopter, record, temporary>>

-----------------------------------------------------------------------------
(* adopt.                                                                   *)

\* holders_of finds every process with the file or a sidecar open.
ScanHolders(a, allow) ==
  /\ AdopterAt(a, "idle")
  /\ holders = {} \/ allow
  /\ adopter' = [adopter EXCEPT ![a] = [NoView EXCEPT !.pc = "sidecars", !.held = allow]]
  /\ UNCHANGED <<store, holders, record, temporary>>

CheckSidecars(a) ==
  /\ AdopterAt(a, "sidecars")
  /\ IF store.wal = {}
       THEN adopter' = [adopter EXCEPT ![a].pc = "stat", ![a].began = store.writes,
                                       ![a].ended = store.writes]
       ELSE Refuses(a)
  /\ UNCHANGED <<store, holders, record, temporary>>

StatStore(a) ==
  /\ AdopterAt(a, "stat")
  /\ adopter' = [adopter EXCEPT ![a].pc = "hash", ![a].stamp = {store.stamp}]
  /\ UNCHANGED <<store, holders, record, temporary>>

\* A block of the file: perhaps the last one.
HashStore(a) ==
  /\ AdopterAt(a, "hash")
  /\ \E pc \in {"hash", "read"} :
       adopter' = [adopter EXCEPT ![a].pc = pc, ![a].hash = @ \cup store.main]
  /\ UNCHANGED <<store, holders, record, temporary>>

\* The next statement of schema_info, session_counts and health, on one
\* read-only connection.
ReadStatement(a) ==
  /\ AdopterAt(a, "read") /\ Len(adopter[a].seen) < Len(Statement)
  /\ adopter' = [adopter EXCEPT ![a].seen = Append(@, Logical),
                                 ![a].file = @ \cup store.main, ![a].ended = store.writes]
  /\ UNCHANGED <<store, holders, record, temporary>>

\* What a statement read.
Read(v, statement) == UNION {v.seen[n] : n \in {m \in DOMAIN v.seen : Statement[m] = statement}}

Adoptable(v) ==
  /\ \A i \in Read(v, "quick_check") : i.sound
  /\ \A i \in Read(v, "foreign_key_check") : i.linked
  /\ \A i \in Read(v, "tables") : i.marker # "unrecognized"
  /\ \A i \in Read(v, "tables"), m \in Read(v, "messages") : i.marker = "v2" => m.messages

\* The connection is closed.  An unhealthy, unknown or partial store is refused.
JudgeStore(a) ==
  /\ AdopterAt(a, "read") /\ Len(adopter[a].seen) = Len(Statement)
  /\ IF Adoptable(adopter[a]) THEN Moves(a, "rescan") ELSE Refuses(a)
  /\ UNCHANGED <<store, holders, record, temporary>>

RescanHolders(a) ==
  /\ AdopterAt(a, "rescan")
  /\ IF holders = {} \/ adopter[a].held THEN Moves(a, "restat") ELSE Refuses(a)
  /\ UNCHANGED <<store, holders, record, temporary>>

\* Mutant: the file is not looked at again.
TrustsStat(a) ==
  /\ AdopterAt(a, "restat")
  /\ Moves(a, "publish")
  /\ UNCHANGED <<store, holders, record, temporary>>

\* A size or a modification time that moved refuses the record.
RestatStore(a) ==
  /\ AdopterAt(a, "restat")
  /\ IF adopter[a].stamp = {store.stamp} THEN Moves(a, "publish") ELSE Refuses(a)
  /\ UNCHANGED <<store, holders, record, temporary>>

\* publish_record: a new temporary file, then a rename over the record.  A
\* temporary file left under this process number refuses.
WriteTemporary(a) ==
  /\ AdopterAt(a, "publish")
  /\ IF a \in temporary
       THEN Refuses(a) /\ UNCHANGED temporary
       ELSE Moves(a, "rename") /\ temporary' = temporary \cup {a}
  /\ UNCHANGED <<store, holders, record>>

RenameRecord(a) ==
  /\ AdopterAt(a, "rename")
  /\ LET v == adopter[a]
     IN  record' = {[ hash |-> v.hash, seen |-> v.seen, held |-> v.held,
                      file |-> v.file, raced |-> v.began # v.ended ]}
  /\ temporary' = temporary \ {a}
  /\ Refuses(a)
  /\ UNCHANGED <<store, holders>>

AdopterDies(a) ==
  /\ ~ AdopterAt(a, "idle")
  /\ adopter' = [adopter EXCEPT ![a] = NoView]
  /\ UNCHANGED <<store, holders, record, temporary>>

-----------------------------------------------------------------------------
AdoptionInit ==
  /\ \E i \in Image : store = [main |-> {i}, wal |-> {}, stamp |-> 0, writes |-> 0]
  /\ holders = {}
  /\ adopter = [a \in Adopter |-> NoView]
  /\ record = {}
  /\ temporary = {}

StoreChanges ==
  \E w \in Writer : OpenStore(w) \/ CommitStore(w) \/ CheckpointStore(w) \/ CloseStore(w) \/ CrashStore(w)

AdoptStep(a) ==
  \/ \E allow \in BOOLEAN : ScanHolders(a, allow)
  \/ CheckSidecars(a) \/ StatStore(a) \/ HashStore(a) \/ ReadStatement(a)
  \/ JudgeStore(a) \/ RescanHolders(a) \/ RestatStore(a) \/ WriteTemporary(a) \/ RenameRecord(a) \/ AdopterDies(a)

AdoptionNext ==
  \/ StoreChanges
  \/ \E a \in Adopter : AdoptStep(a)

AdoptionSpec == AdoptionInit /\ [][AdoptionNext]_adoptionVars

-----------------------------------------------------------------------------
\* Types.
AdoptionTypeOK ==
  /\ store.main \subseteq Image /\ store.wal \subseteq Image
  /\ store.stamp \in Nat /\ store.writes \in 0 .. MaxWrites
  /\ holders \subseteq Writer /\ temporary \subseteq Adopter
  /\ \A a \in Adopter : /\ adopter[a].hash \subseteq Image
                        /\ adopter[a].seen \in Seq(SUBSET Image)
                        /\ Len(adopter[a].seen) <= Len(Statement)

\* adopt.rs: "The hash, counts, and health checks must describe the same
\* bytes".  A record of a store nobody was allowed to hold has the hash of the
\* image all its statements read.  It does not hold: a writer that commits after
\* the sidecars were looked for leaves the main file and its stamp as they were.
RecordIsOneImage ==
  \A r \in record : ~ r.held => \A n \in DOMAIN r.seen : r.seen[n] = r.hash

\* What the gates do establish.  A recorded hash is that of one image, which the
\* main file was at every statement: a checkpoint at any moment between the two
\* looks at the file refuses the record.  All statements were answered, and each
\* check passed in what it read.  And a record is of one image unless a writer
\* committed after the sidecars were looked for.
RecordPinsTheFile ==
  \A r \in record :
    /\ \E i \in Image : r.hash = {i} /\ r.file = {i}
    /\ Len(r.seen) = Len(Statement) /\ Adoptable(r)
    /\ ~ r.raced => \A n \in DOMAIN r.seen : r.seen[n] = r.hash
=============================================================================
