---------------------------- MODULE MCOperations ----------------------------
(* The scratch ledger: a directory, a file in it, and a quarantine the       *)
(* directory may be moved to; the object at either path may be replaced by   *)
(* the other one.  Nix additions: two requests under one identity.           *)
EXTENDS ScratchLedger, NixOperations

CONSTANTS dir, file, quarantine,          \* paths
          older, newer,                   \* objects
          shell, watcher                  \* an invocation and an observer

Family == [p \in Path |-> IF p = quarantine THEN {quarantine} ELSE {dir, file}]
Places ==
  [x \in Path \X Path \X Path |->
     IF x[2] = x[1] THEN {x[3]} ELSE IF x[3] = x[1] THEN {x[2]} ELSE {}]

Seen(id, path, object, activity, owners) ==
  [kind |-> "observe", id |-> id, path |-> path, identity |-> object, present |-> TRUE,
   activity |-> activity, owners |-> owners]

Events ==
  {[kind |-> "begin", id |-> 1, invocation |-> shell],
   [kind |-> "end", id |-> 2, invocation |-> shell, outcome |-> "exited", asserted |-> FALSE],
   Seen(3, dir, older, TRUE, {shell}), Seen(4, dir, newer, FALSE, {}), Seen(5, file, newer, FALSE, {}),
   [kind |-> "annotation", id |-> 6, path |-> dir, identity |-> older, disposition |-> "released"],
   [kind |-> "coverage", id |-> 7, observer |-> watcher, healthy |-> TRUE],
   [kind |-> "link", id |-> 8, path |-> dir, identity |-> older],
   [kind |-> "context", id |-> 9, invocation |-> shell],
   [kind |-> "end", id |-> 10, invocation |-> shell, outcome |-> "unknown", asserted |-> FALSE],
   [kind |-> "end", id |-> 11, invocation |-> shell, outcome |-> "error", asserted |-> TRUE],
   Seen(12, dir, older, TRUE, {}),
   [kind |-> "annotation", id |-> 13, path |-> dir, identity |-> newer, disposition |-> "released"],
   [kind |-> "annotation", id |-> 14, path |-> file, identity |-> newer, disposition |-> "released"],
   [kind |-> "annotation", id |-> 15, path |-> dir, identity |-> older, disposition |-> "open"]}

\* Reports about the directory alone, for the runs in which they meet an assessment.
Judging == {e \in Events : e.id \in {1, 2, 3, 4, 6, 8}}
=============================================================================
