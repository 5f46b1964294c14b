-------------------------- MODULE SessionCampaign --------------------------
(***************************************************************************)
(* Verification of a session migration (chaosbox/src/sessions).  A driver  *)
(* outside this code writes sessions into a destination database, one      *)
(* immutable receipt per migrated session, and the inventory of what it    *)
(* meant to migrate; it may still be at work.  verify resolves the         *)
(* receipts to one effective receipt per session, takes one read snapshot  *)
(* of the destination and reports whether that snapshot is exactly what    *)
(* the receipts and the inventory say.                                     *)
(*                                                                         *)
(* A digest is represented by what it is computed over, a derived          *)
(* identifier by the provenance it is derived from.  Pinned files          *)
(* (mapping, delta inventory, boundary records, source and recovery        *)
(* snapshots) do not change during a pass.                                 *)
(***************************************************************************)
EXTENDS Naturals, FiniteSets, Sequences

CONSTANTS
  Session,       \* session identities, derived ones included
  Content,       \* session contents a database may hold, see ContentType
  SafeInteger,   \* the largest integer JavaScript represents exactly
  Rederived,     \* Rederived[<<source, session, attempt>>]: the derived session
  Rekeyed,       \* Rekeyed[<<session, message>>]: the derived message at attempt 0
  Snapshots,     \* Snapshots[source][session]: {} or the frozen content
  Boundaries,    \* Boundaries[b]: the record of a freeze boundary
  Recovered,     \* Recovered[session]: the recovered rows behind a session
  Journals,      \* the names a journal directory may have, in their order
  Receipt,       \* the receipts that may be written
  Staged,        \* campaigns as they may stand when a pass begins
  Options,       \* options of a pass
  MaxChanges     \* bound: changes to the campaign once it is staged

VARIABLES
  campaign,      \* the staging root: receipts, progress, pins and destination
  version,       \* commits to the destination
  pass           \* the verifying process

campaignVars == <<campaign, version, pass>>

\* Message identifiers and values stay abstract, the columns of a row are one value.
Value == [kind : {"null", "integer", "real", "text", "blob"}, of : Nat]

None == {}

\* A receipt as its accessors show it; "wellformed" stands for the shape and the
\* version checks of every field.
IsReceipt(r) ==
  /\ \E i \in DOMAIN Journals : Journals[i] = r.file.journal
  /\ r.wellformed \in BOOLEAN /\ r.file.session \in Session /\ r.claims \in Session
  /\ r.kind \in {"", "divergent-variant", "supersession", "delta-new"}
  /\ r.origin \subseteq Session /\ Cardinality(r.origin) <= 1
  /\ Cardinality(r.supersedes) <= 1 /\ Cardinality(r.boundary) <= 1
  /\ r.messages \in Nat /\ r.recovery \in Nat /\ r.attempt \in Nat

\* The migration's progress file; "readable" stands for the checks of its fields.
InventoryType == [readable : BOOLEAN, verified : SUBSET Session, total : Nat,
                  deferred : Nat, errors : Nat, complete : BOOLEAN]

\* One entry of the variant mapping file.
MappingEntry == [session : Session, messages : Nat]

\* Derived identifiers: what they are derived from decides what they are.
VariantSession(source, s, attempt) == Rederived[<<source, s, attempt>>]
VariantMessage(s, m) == Rekeyed[<<s, m>>]

ASSUME CampaignAssumption == \A r \in Receipt : IsReceipt(r)

CampaignType ==
  [receipts : SUBSET Receipt, progress : InventoryType, pins : {c.pins : c \in Staged},
   healthy : BOOLEAN, changes : 0 .. MaxChanges, destination : [Session -> SUBSET Content]]

\* One receipt to a file, and finitely many.
FilesDiffer(receipts) ==
  IsFiniteSet(receipts) /\ \A q, r \in receipts : q.file = r.file => q = r

ASSUME StagedAssumption ==
  /\ MaxChanges \in Nat /\ Staged \subseteq CampaignType
  /\ \A c \in Staged :
       /\ FilesDiffer(c.receipts)
       /\ c.pins.mapping \subseteq MappingEntry /\ c.pins.inventory \subseteq Session

-----------------------------------------------------------------------------
(* session_digest: the session row, its messages in order, and the rows of  *)
(* the link tables that exist, each encoded as JSON.stringify would.        *)

Rounded(n) == 2 * (n \div 2)
Encoded(v) ==
  CASE v.kind = "integer" /\ v.of > SafeInteger -> <<"number", Rounded(v.of)>>
    [] v.kind \in {"integer", "real"} -> <<"number", v.of>>
    [] v.kind = "text" -> <<"text", v.of>>
    [] v.kind \in {"null", "blob"} -> <<v.kind, 0>>

Digest(c) ==
  <<Encoded(c.row), [i \in DOMAIN c.messages |-> <<c.messages[i].id, Encoded(c.messages[i].body)>>],
    [i \in DOMAIN c.links |-> <<c.links[i].table, Encoded(c.links[i].body)>>]>>

Values(c) == {c.row} \cup {c.messages[i].body : i \in DOMAIN c.messages}
                     \cup {c.links[i].body : i \in DOMAIN c.links}

\* A BLOB is outside the contract: the digest is an error.
Undigestible(c) == \E v \in Values(c) : v.kind = "blob"

MessageIds(c) == [i \in DOMAIN c.messages |-> c.messages[i].id]

-----------------------------------------------------------------------------
(* Receipts.  A file is named after its session; no suffix and suffix 1 are *)
(* generation one.                                                          *)

Generation(file) == IF file.suffix = 0 THEN 1 ELSE file.suffix
File(journal, session, suffix) == [journal |-> journal, session |-> session, suffix |-> suffix]

\* check_link_agreement: what a receipt of journal-v3 may supersede.
Predecessor(file) ==
  CASE Generation(file) = 1 -> File("journal-v2", file.session, 0)
    [] Generation(file) = 2 -> File("journal-v3", file.session, 0)
    [] OTHER -> File("journal-v3", file.session, Generation(file) - 1)

LinkAgrees(r) ==
  \A target \in r.supersedes :
    /\ r.file.journal # "journal-v2"
    /\ r.file.journal = "journal-v3" => target = Predecessor(r.file)

\* check_kind; a canonical receipt has no kind.
KindAgrees(r) ==
  /\ r.kind = "divergent-variant" => r.origin # None
  /\ r.kind = "supersession" => r.supersedes # None
  /\ r.kind = "delta-new" => r.supersedes = None /\ r.origin = None

ValidReceipt(r) == r.wellformed /\ LinkAgrees(r) /\ KindAgrees(r)

Members(files, s) == {r \in files : r.file.session = s}
Covered(files) == {r.file.session : r \in files}
Named(files, r) == {q \in files : r.supersedes = {q.file}}
Unreferenced(files, s) == {r \in Members(files, s) : \A q \in files : r \notin Named(files, q)}

\* incoming_counts and check_session_ids.
LinksResolve(files) ==
  \A r \in files :
    /\ r.supersedes # None => Named(files, r) # {}
    /\ \A q \in Named(files, r) : q.file.session = r.file.session
    /\ r.claims = r.file.session

\* Mutant: the number of receipts walked is not compared.
ReachesBase(files, head, count) == TRUE

\* walk_chain: following the links from the head visits as many receipts as
\* the session has, and then ends.
WalksAll(files, head, count) ==
  LET visited[i \in 1 .. count + 1] ==
        IF i = 1 THEN {head} ELSE UNION {Named(files, r) : r \in visited[i - 1]}
  IN  visited[count] # {} /\ visited[count + 1] = {}

Resolvable(files) ==
  /\ \A r \in files : ValidReceipt(r)
  /\ LinksResolve(files)
  /\ \A s \in Covered(files) :
       \E head \in Unreferenced(files, s) :
         /\ Unreferenced(files, s) = {head}
         /\ WalksAll(files, head, Cardinality(Members(files, s)))

\* effective_receipts; an error leaves none.
Effective(files) ==
  IF Resolvable(files)
    THEN [s \in Covered(files) |->
           [head |-> CHOOSE r \in Unreferenced(files, s) : TRUE,
            depth |-> Cardinality(Members(files, s))]]
    ELSE [s \in {} |-> {}]

-----------------------------------------------------------------------------
(* The pass.                                                                *)

\* The report's findings are sets of sessions; "stopped" is a pass that ended
\* with an error and reported nothing.
NoReport == [chain |-> FALSE, healthy |-> TRUE, reconciled |-> FALSE, complete |-> FALSE,
             missing |-> {}, digest |-> {}, superseded |-> {}, count |-> {},
             source |-> {}, recovery |-> {}, remap |-> {}, sourceErrors |-> {},
             uncovered |-> {}, checked |-> {}, coverage |-> {},
             concurrent |-> FALSE]

Waiting == [pc |-> "idle", options |-> None, unread |-> {}, files |-> {}, effective |-> [s \in {} |-> {}],
            todo |-> {}, variants |-> {}, delta |-> {}, before |-> 0,
            snapshot |-> [s \in Session |-> None], healthy |-> TRUE,
            progress |-> None, final |-> None, report |-> NoReport]

Opts == CHOOSE o \in pass.options : TRUE
Stopped == pass' = [pass EXCEPT !.pc = "stopped"]

\* select: the sessions asked for, or all, or as many as the limit says (which
\* ones is their order, a choice here).
Selections(o, known) ==
  IF o.sessions # {} THEN {o.sessions}
  ELSE {chosen \in SUBSET known :
          Cardinality(chosen) = IF o.limit = 0 \/ o.limit > Cardinality(known)
                                  THEN Cardinality(known) ELSE o.limit}

\* verify begins: Campaign::journals names the directories that are there.  A
\* directory may be there before its first receipt; a later one is not looked into.
BeginPass(o) ==
  /\ pass.pc = "idle"
  /\ \E there \in SUBSET (DOMAIN Journals) :
       /\ {r.file.journal : r \in campaign.receipts} \subseteq {Journals[i] : i \in there}
       /\ pass' = [pass EXCEPT !.pc = "list", !.options = {o}, !.unread = there]
  /\ UNCHANGED <<campaign, version>>

\* Campaign::receipts reads one directory after another while the driver writes.
ReadJournal ==
  /\ pass.pc = "list"
  /\ \E i \in pass.unread :
       /\ \A j \in pass.unread : i <= j
       /\ pass' = [pass EXCEPT !.unread = @ \ {i},
                     !.files = @ \cup {r \in campaign.receipts : r.file.journal = Journals[i]}]
  /\ UNCHANGED <<campaign, version>>

\* What was read is resolved, once.  A selected session without an effective
\* receipt stops the pass.
ResolveReceipts ==
  /\ pass.pc = "list" /\ pass.unread = {}
  /\ LET effective == Effective(pass.files)
     IN  \/ /\ ~ Opts.sessions \subseteq DOMAIN effective
            /\ Stopped
         \/ /\ Opts.sessions \subseteq DOMAIN effective
            /\ \E chosen \in Selections(Opts, DOMAIN effective) :
                 pass' = [pass EXCEPT !.pc = "pins", !.effective = effective, !.todo = chosen,
                                      !.report.chain = ~ Resolvable(pass.files)]
  /\ UNCHANGED <<campaign, version>>

\* VariantPins::load: the mapping a variant receipt was derived with.
VariantPinsHold ==
  LET pins == campaign.pins IN
  /\ pins.variant = None =>
       \A s \in DOMAIN pass.effective : pass.effective[s].head.kind # "divergent-variant"
  /\ \A v \in pins.variant : v.wellformed /\ v.mapping = pins.mapping

\* DeltaPins::load: chained to the variant identity, and built against the
\* reconciliation that identity names.
DeltaPinsHold ==
  LET pins == campaign.pins IN
  \A d \in pins.delta :
    /\ d.wellformed
    /\ \E v \in pins.variant : v = d.chainedTo /\ v.reconciliation = d.reconciliation
    /\ d.inventory = pins.inventory

LoadPins ==
  /\ pass.pc = "pins"
  /\ IF VariantPinsHold /\ DeltaPinsHold
       THEN pass' = [pass EXCEPT !.pc = "version",
                       !.variants = IF campaign.pins.variant = None THEN {} ELSE campaign.pins.mapping,
                       !.delta = IF campaign.pins.delta = None THEN {} ELSE campaign.pins.inventory]
       ELSE Stopped
  /\ UNCHANGED <<campaign, version>>

\* Snapshot::open: the version is read first, the snapshot begins with the
\* first read after BEGIN.
ReadVersion ==
  /\ pass.pc = "version"
  /\ pass' = [pass EXCEPT !.pc = "begin", !.before = version]
  /\ UNCHANGED <<campaign, version>>

BeginSnapshot ==
  /\ pass.pc = "begin"
  /\ pass' = [pass EXCEPT !.pc = "reconcile", !.snapshot = campaign.destination,
                          !.healthy = campaign.healthy, !.report.healthy = campaign.healthy]
  /\ UNCHANGED <<campaign, version>>

Rows(database) == {s \in Session : database[s] # None}
Sanctioned(p) == p.verified \cup {m.session : m \in pass.variants} \cup pass.delta

\* Mutant: what the destination has beyond the receipts is not looked at.
ReconcilesReceipts(p) ==
  /\ Sanctioned(p) = DOMAIN pass.effective
  /\ DOMAIN pass.effective \subseteq Rows(pass.snapshot)
  /\ p.deferred = 0 /\ p.errors = 0
  /\ p.total = Cardinality(p.verified)

\* InventoryReport::reconcile.
Reconciles(p) ==
  /\ p.readable
  /\ Sanctioned(p) = DOMAIN pass.effective
  /\ DOMAIN pass.effective = Rows(pass.snapshot)
  /\ p.deferred = 0 /\ p.errors = 0
  /\ p.total = Cardinality(p.verified)

ReconcileInventory ==
  /\ pass.pc = "reconcile"
  /\ LET p == campaign.progress IN
     pass' = [pass EXCEPT !.pc = "check", !.progress = {p},
                !.report.reconciled = Reconciles(p),
                !.report.complete = /\ Reconciles(p) /\ p.complete
                                    /\ pass.todo = DOMAIN pass.effective]
  /\ UNCHANGED <<campaign, version>>

\* check_provenance_binding and the boundary a receipt's sources come from.
Moved(r) == r.kind \in {"supersession", "delta-new"}

\* The frozen database behind a receipt, {} when it cannot be established.
SourceOf(r) ==
  IF Moved(r) /\ r.boundary # None
    THEN {Boundaries[b.name].snapshot : b \in {x \in r.boundary :
            x.name \in DOMAIN Boundaries /\ Boundaries[x.name].intact
            /\ Boundaries[x.name].digest = x.digest}}
    ELSE {Snapshots[r.source]}

\* check_message_pairs: one derived message per original message, in order.
PairsAgree(r, s, original) ==
  \A held \in pass.snapshot[s] :
    /\ Len(MessageIds(original)) = r.messages /\ Len(MessageIds(held)) = r.messages
    /\ r.map = [i \in 1 .. r.messages |-> <<MessageIds(original)[i], MessageIds(held)[i]>>]
    /\ \A i \in 1 .. r.messages : MessageIds(held)[i] = VariantMessage(s, MessageIds(original)[i])

\* check_variant_remap, when the variant's own source session is there.
RemapAgrees(r, s) ==
  /\ campaign.pins.variant # None => [session |-> s, messages |-> r.messages] \in pass.variants
  /\ \A v \in campaign.pins.variant : r.transformation = v.transformation
  /\ \A o \in r.origin :
       /\ VariantSession(r.source, o, r.attempt) = s
       /\ \A c \in Snapshots[r.source][o] : PairsAgree(r, s, c)

In(s, finding) == IF finding THEN {s} ELSE {}

\* check_provenance_binding, on every pass: a moved session names the boundary
\* record its sources were frozen with.
BindProvenance(report, s, r) ==
  [report EXCEPT !.uncovered = @ \cup In(s, Moved(r) /\ r.boundary = None),
                 !.sourceErrors = @ \cup In(s, Moved(r) /\ \E b \in r.boundary : ~ b.known)]

\* check_destination: the snapshot's content against the effective receipt.
CompareDestination(report, s, r, depth) ==
  LET held == pass.snapshot[s]
      differs == \E c \in held : Digest(c) # r.digest
  IN  [report EXCEPT !.missing = @ \cup In(s, held = None),
                     !.digest = @ \cup In(s, differs /\ depth = 1),
                     !.superseded = @ \cup In(s, differs /\ depth > 1),
                     !.count = @ \cup In(s, \E c \in held : Len(c.messages) # r.messages)]

\* The session a receipt's source digests are about.
SourceSession(s, r) == IF r.origin = None THEN s ELSE CHOOSE o \in r.origin : TRUE

Inputs(s, r) == UNION {db[SourceSession(s, r)] : db \in SourceOf(r)}

\* check_sources: the frozen sources against the effective receipt.
CompareSources(report, s, r) ==
  LET found == SourceOf(r) # {} IN
  [report EXCEPT !.sourceErrors = @ \cup In(s, Inputs(s, r) = {}),
                 !.source = @ \cup In(s, \E c \in Inputs(s, r) : Digest(c) # r.input),
                 !.recovery = @ \cup In(s, found /\ Recovered[SourceSession(s, r)] # r.recovery),
                 !.remap = @ \cup In(s, found /\ r.kind = "divergent-variant" /\ ~ RemapAgrees(r, s)),
                 !.coverage = @ \cup In(s, found)]

\* One selected session.
CheckSession(s) ==
  /\ pass.pc = "check" /\ s \in pass.todo
  /\ LET e == pass.effective[s]
         read == pass.snapshot[s] \cup IF Opts.sources THEN Inputs(s, e.head) ELSE {}
         bound == BindProvenance(pass.report, s, e.head)
         compared == CompareDestination(bound, s, e.head, e.depth)
         report == IF Opts.sources THEN CompareSources(compared, s, e.head) ELSE compared
     IN  IF \E c \in read : Undigestible(c)
           THEN Stopped
           ELSE pass' = [pass EXCEPT !.todo = @ \ {s},
                                     !.report = [report EXCEPT !.checked = @ \cup {s}]]
  /\ UNCHANGED <<campaign, version>>

\* Snapshot::finish: the transaction ends, then the version is read again.
FinishSnapshot ==
  /\ pass.pc = "check" /\ pass.todo = {}
  /\ pass' = [pass EXCEPT !.pc = "done", !.final = {campaign.destination},
                          !.report.concurrent = version # pass.before]
  /\ UNCHANGED <<campaign, version>>

\* VerifyReport::clean and succeeded.
Clean(r) ==
  /\ r.healthy /\ r.reconciled /\ ~ r.chain
  /\ r.missing \cup r.digest \cup r.superseded \cup r.count \cup r.source \cup r.recovery
       \cup r.remap \cup r.sourceErrors \cup r.uncovered = {}
  /\ Opts.sources => r.coverage = r.checked
Succeeded(r) == Clean(r) /\ (r.complete \/ Opts.allowPartial)

-----------------------------------------------------------------------------
(* Outside this code: the migration driver, and whoever else can write.      *)

Changes(new) == campaign.changes < MaxChanges /\ campaign' = [new EXCEPT !.changes = @ + 1]

DriverWrites(s) ==
  /\ \E c \in Content : campaign.destination[s] # {c} /\ Changes([campaign EXCEPT !.destination[s] = {c}])
  /\ version' = version + 1
  /\ UNCHANGED pass

SessionRemoved(s) ==
  /\ campaign.destination[s] # None
  /\ Changes([campaign EXCEPT !.destination[s] = None])
  /\ version' = version + 1
  /\ UNCHANGED pass

DestinationDamaged ==
  /\ campaign.healthy
  /\ Changes([campaign EXCEPT !.healthy = FALSE])
  /\ version' = version + 1
  /\ UNCHANGED pass

\* Receipts are immutable: a file is added, never replaced.
DriverReceipts(r) ==
  /\ \A q \in campaign.receipts : q.file # r.file
  /\ Changes([campaign EXCEPT !.receipts = @ \cup {r}])
  /\ UNCHANGED <<version, pass>>

DriverProgress(s) ==
  /\ \/ s \notin campaign.progress.verified
        /\ Changes([campaign EXCEPT !.progress.verified = @ \cup {s}, !.progress.total = @ + 1])
     \/ Changes([campaign EXCEPT !.progress.errors = 1, !.progress.total = @ + 1])
     \/ ~ campaign.progress.complete /\ Changes([campaign EXCEPT !.progress.complete = TRUE])
  /\ UNCHANGED <<version, pass>>

-----------------------------------------------------------------------------
CampaignInit ==
  /\ campaign \in Staged
  /\ version = 0
  /\ pass = Waiting

Verify ==
  \/ \E o \in Options : BeginPass(o)
  \/ ReadJournal \/ ResolveReceipts
  \/ LoadPins \/ ReadVersion \/ BeginSnapshot \/ ReconcileInventory
  \/ \E s \in Session : CheckSession(s)
  \/ FinishSnapshot

CampaignNext ==
  \/ Verify
  \/ \E s \in Session : DriverWrites(s) \/ SessionRemoved(s) \/ DriverProgress(s)
  \/ DestinationDamaged
  \/ \E r \in Receipt : DriverReceipts(r)

CampaignSpec == CampaignInit /\ [][CampaignNext]_campaignVars

-----------------------------------------------------------------------------
\* Types.
CampaignTypeOK ==
  /\ campaign.progress \in InventoryType /\ campaign.pins.mapping \subseteq MappingEntry
  /\ campaign.receipts \subseteq Receipt /\ campaign.changes \in 0 .. MaxChanges
  /\ \A s \in Session : campaign.destination[s] \subseteq Content
  /\ version \in Nat
  /\ pass.unread \subseteq DOMAIN Journals
  /\ pass.pc \in {"idle", "list", "pins", "version", "begin", "reconcile", "check", "done", "stopped"}
  /\ pass.files \subseteq Receipt /\ pass.todo \subseteq Session
  /\ DOMAIN pass.effective \subseteq Session

\* The receipts of a session in the order they were written: the first
\* supersedes nothing and each one supersedes the one before it.
Orders(files, s) ==
  {q \in [1 .. Cardinality(Members(files, s)) -> Members(files, s)] :
     /\ \A r \in Members(files, s) : \E i \in DOMAIN q : q[i] = r
     /\ q[1].supersedes = None
     /\ \A i \in DOMAIN q \ {1} : q[i].supersedes = {q[i - 1].file}}

\* Resolution by counting references and walking once from the head agrees
\* with the definition: a campaign resolves exactly when the receipts of every
\* session form one line, and the effective receipt is its end.  Detached
\* cycles, forks, links across sessions and missing targets do not resolve
\* (incoming_counts, single_head, walk_chain).
EffectiveIsLatest ==
  pass.pc \notin {"idle", "list", "stopped"} =>
    LET sound == /\ \A r \in pass.files : ValidReceipt(r) /\ r.claims = r.file.session
                 /\ \A s \in Covered(pass.files) : Orders(pass.files, s) # {}
    IN  /\ pass.report.chain <=> ~ sound
        /\ sound => /\ DOMAIN pass.effective = Covered(pass.files)
                    /\ \A s \in DOMAIN pass.effective : \A q \in Orders(pass.files, s) :
                         pass.effective[s].head = q[Len(q)]

\* A pass that succeeds without --allow-partial is never about nothing and
\* never about two moments: the snapshot holds exactly the sessions the
\* inventory and the pins sanction, each with the content and the number of
\* messages its latest receipt attests; under --sources each of them was
\* recomputed from frozen sources, under the identifiers its provenance
\* derives; and when the report names no concurrent write, that is what the
\* destination held when the pass ended, whatever the driver did meanwhile.
SuccessMeansExact ==
  pass.pc = "done" /\ Succeeded(pass.report) /\ ~ Opts.allowPartial =>
    /\ \E p \in pass.progress : p.complete /\ Rows(pass.snapshot) = Sanctioned(p)
    /\ \A s \in Rows(pass.snapshot) : \A c \in pass.snapshot[s] :
         \E q \in Orders(pass.files, s) :
           LET r == q[Len(q)] IN
           /\ Digest(c) = r.digest /\ Len(c.messages) = r.messages
           /\ Opts.sources =>
                /\ \E o \in Inputs(s, r) : Digest(o) = r.input
                /\ r.kind = "divergent-variant" =>
                     \E o \in r.origin : VariantSession(r.source, o, r.attempt) = s
    /\ ~ pass.report.concurrent => pass.final = {pass.snapshot}
=============================================================================
