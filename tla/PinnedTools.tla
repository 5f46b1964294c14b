----------------------------- MODULE PinnedTools -----------------------------
(***************************************************************************)
(* sessions install and rollback run a script of the campaign only when it *)
(* and every file its relative imports lead to hash as tools.json pins     *)
(* them (chaosbox/src/sessions/tool.rs).  Nothing locks the files: each is *)
(* hashed, read again for its imports and loaded by node at a moment of    *)
(* its own, and somebody may edit it in between.                           *)
(***************************************************************************)
EXTENDS Naturals

CONSTANTS
  Tool,          \* files of the cutover tools
  Text,          \* what a file may hold; two texts have two digests
  Gone,          \* no file
  PinFile,       \* what tools.json may say: files and their digests
  Scanned,       \* Scanned[f][t]: the files relative_imports finds in f when it holds t
  MaxEdits       \* bound: edits

VARIABLES
  onDisk,        \* what each file holds
  pinned,        \* tools.json as the resolution read it
  walk,          \* the resolution under way
  edits,         \* edits so far (bound)
  touched        \* history: files edited since the tool was requested

\* A digest is the text that has it, or one that no text has (a malformed entry).
\* Whatever the scan finds counts as a file of the tools.
ASSUME ToolAssumption ==
  /\ Gone \notin Text
  /\ \A d \in PinFile : DOMAIN d \subseteq Tool /\ \A f \in DOMAIN d : d[f] # Gone
  /\ Scanned \in [Tool -> [Text -> SUBSET Tool]]
  /\ MaxEdits \in Nat

toolVars == <<onDisk, pinned, walk, edits, touched>>

NoWalk == [pc |-> "idle", entry |-> {}, left |-> {}, queue |-> {}, walked |-> {}]
NoPins == [f \in {} |-> Gone]

\* tools.json is read once; one that cannot be read pins nothing.
RequestTool(f, d) ==
  /\ walk.pc = "idle"
  /\ pinned' = d
  /\ walk' = [NoWalk EXCEPT !.pc = "hash", !.entry = {f}, !.left = DOMAIN d]
  /\ UNCHANGED <<onDisk, edits, touched>>

\* Every pinned file is hashed, one after another.
HashPin(f) ==
  /\ walk.pc = "hash" /\ f \in walk.left
  /\ walk' = IF onDisk[f] = pinned[f] THEN [walk EXCEPT !.left = @ \ {f}]
                                      ELSE [walk EXCEPT !.pc = "refused"]
  /\ UNCHANGED <<onDisk, pinned, edits, touched>>

\* The tool that was asked for is one of them.
StartWalk ==
  /\ walk.pc = "hash" /\ walk.left = {}
  /\ walk' = IF walk.entry \subseteq DOMAIN pinned
               THEN [walk EXCEPT !.pc = "walk", !.queue = walk.entry]
               ELSE [walk EXCEPT !.pc = "refused"]
  /\ UNCHANGED <<onDisk, pinned, edits, touched>>

Missing(f) == onDisk[f] = Gone
ImportsOf(f) == IF Missing(f) THEN {} ELSE Scanned[f][onDisk[f]]

\* Mutant: only the imports of the requested file are checked.
WalksEntryOnly(f) ==
  /\ walk.pc = "walk" /\ f \in walk.queue
  /\ walk' = CASE f \in walk.walked \/ {f} # walk.entry -> [walk EXCEPT !.queue = @ \ {f}]
               [] Missing(f) \/ ~ ImportsOf(f) \subseteq DOMAIN pinned -> [walk EXCEPT !.pc = "refused"]
               [] OTHER -> [walk EXCEPT !.queue = (@ \ {f}) \cup ImportsOf(f), !.walked = @ \cup {f}]
  /\ UNCHANGED <<onDisk, pinned, edits, touched>>

\* One file of the walk is read again: each of its imports is pinned, and walked
\* in turn.
WalkImports(f) ==
  /\ walk.pc = "walk" /\ f \in walk.queue
  /\ walk' = CASE f \in walk.walked -> [walk EXCEPT !.queue = @ \ {f}]
               [] f \notin walk.walked /\ (Missing(f) \/ ~ ImportsOf(f) \subseteq DOMAIN pinned) ->
                    [walk EXCEPT !.pc = "refused"]
               [] OTHER -> [walk EXCEPT !.queue = (@ \ {f}) \cup ImportsOf(f), !.walked = @ \cup {f}]
  /\ UNCHANGED <<onDisk, pinned, edits, touched>>

ResolveTool ==
  /\ walk.pc = "walk" /\ walk.queue = {}
  /\ walk' = [walk EXCEPT !.pc = "resolved"]
  /\ UNCHANGED <<onDisk, pinned, edits, touched>>

\* exec_node starts the tool.
StartTool ==
  /\ walk.pc = "resolved"
  /\ walk' = [walk EXCEPT !.pc = "running"]
  /\ UNCHANGED <<onDisk, pinned, edits, touched>>

\* Its exit code is forwarded, or it was refused, or there is no node to start it.
ToolEnds ==
  /\ walk.pc \in {"resolved", "running", "refused"}
  /\ walk' = NoWalk /\ pinned' = NoPins /\ touched' = {}
  /\ UNCHANGED <<onDisk, edits>>

\* Somebody edits or removes a file, at any moment.
EditTool(f, t) ==
  /\ edits < MaxEdits /\ t # onDisk[f]
  /\ onDisk' = [onDisk EXCEPT ![f] = t]
  /\ edits' = edits + 1
  /\ touched' = IF walk.pc = "idle" THEN touched ELSE touched \cup {f}
  /\ UNCHANGED <<pinned, walk>>

-----------------------------------------------------------------------------
ToolInit ==
  /\ onDisk \in [Tool -> Text]
  /\ pinned = NoPins /\ walk = NoWalk /\ edits = 0 /\ touched = {}

ToolNext ==
  \/ \E f \in Tool, d \in PinFile : RequestTool(f, d)
  \/ \E f \in Tool : HashPin(f) \/ WalkImports(f)
  \/ StartWalk \/ ResolveTool \/ StartTool \/ ToolEnds
  \/ \E f \in Tool, t \in Text \cup {Gone} : EditTool(f, t)

ToolSpec == ToolInit /\ [][ToolNext]_toolVars

-----------------------------------------------------------------------------
\* Types.
ToolTypeOK ==
  /\ onDisk \in [Tool -> Text \cup {Gone}] /\ pinned \in PinFile \cup {NoPins}
  /\ walk \in [pc : {"idle", "hash", "walk", "resolved", "running", "refused"}, entry : SUBSET Tool,
               left : SUBSET Tool, queue : SUBSET Tool, walked : SUBSET Tool]
  /\ edits \in 0 .. MaxEdits /\ touched \in SUBSET Tool

\* Files that imports lead to from f, through files nobody edited since the
\* request: the least set that has f and is closed under the imports of those.
LeadsTo(f) == IF f \in touched THEN {} ELSE ImportsOf(f)
Reachable(f) ==
  LET closed == {S \in SUBSET Tool : f \in S /\ \A g \in S : LeadsTo(g) \subseteq S}
  IN  {g \in Tool : \A S \in closed : g \in S}
AsPinned(f) == f \in DOMAIN pinned /\ onDisk[f] = pinned[f]

\* A tool that is run was pinned with every file that relative imports lead to,
\* however deep and also around cycles, and each of those has its pinned text
\* unless it was edited since the request; without an edit since then, a refusal
\* means that the imports lead out of the pins or a pinned file has another text
\* (resolve_tool, exec_node).
ToolClosureIsPinned ==
  \A e \in walk.entry :
    /\ walk.pc \in {"resolved", "running"} =>
         \A f \in Reachable(e) \cup DOMAIN pinned : AsPinned(f) \/ f \in DOMAIN pinned \cap touched
    /\ walk.pc = "refused" =>
         touched # {} \/ \E f \in Reachable(e) \cup DOMAIN pinned : ~ AsPinned(f)

\* What tool.rs promises: the digest is verified immediately before use, and a
\* run whose tool does not match its pin refuses to start (resolve_tool, exec_node).
\* It does not hold: a tool may be edited between its hash and its start.
StartsAsPinned == [][StartTool => \A f \in walk.entry : AsPinned(f)]_toolVars
=============================================================================
