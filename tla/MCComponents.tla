---------------------------- MODULE MCComponents ----------------------------
(* The components that share no state, side by side: a behaviour is one of   *)
(* the component it begins with, and the others stay as they began.  The     *)
(* reachable states are those of the components, one after the other.        *)
EXTENDS MCOperations, MCSessions, MCReading

Component == {"reports", "judging", "nix", "campaign", "adoption", "tools", "mcp", "reader",
              "federation", "view"}

VARIABLE focus

componentVars ==
  <<focus, scratchVars, nixVars, campaignVars, adoptionVars, toolVars, mcpVars, readingVars,
    federationVars, scopedVars>>

\* A component that is not looked at begins in one state only.
Init ==
  /\ focus \in Component
  /\ ScratchInit /\ NixInit /\ ToolInit /\ McpInit /\ FederationInit
  /\ CampaignInit /\ (campaign = EmptyCampaign \/ focus = "campaign")
  /\ (onDisk = [f \in Tool |-> "pinned"] \/ focus = "tools")
  /\ AdoptionInit /\ store.main = {StoreImage(1, "v2")}
  /\ ReadingInit /\ (content = [b \in Build |-> Rich] \/ focus = "reader")
  /\ ScopedInit /\ (build = [Admitted({}) EXCEPT !.foreign = TRUE] \/ focus = "view")

\* The scratch ledger is looked at twice: all reports, without an assessment;
\* and those about one directory, which meet an assessment of it.
ScratchStep ==
  /\ ScratchNext
  /\ CASE focus = "reports" -> UNCHANGED assessor
       [] focus = "judging" -> log' \subseteq Judging /\ \A p \in Path \ {dir} : disk'[p] = {}

Next ==
  /\ UNCHANGED focus
  /\ IF focus \in {"reports", "judging"} THEN ScratchStep ELSE UNCHANGED scratchVars
  /\ IF focus = "nix" THEN NixNext ELSE UNCHANGED nixVars
  /\ IF focus = "campaign" THEN CampaignNext ELSE UNCHANGED campaignVars
  /\ IF focus = "adoption" THEN AdoptionNext ELSE UNCHANGED adoptionVars
  /\ IF focus = "tools" THEN ToolNext ELSE UNCHANGED toolVars
  /\ IF focus = "mcp" THEN McpNext ELSE UNCHANGED mcpVars
  /\ IF focus = "reader" THEN ReadingNext ELSE UNCHANGED readingVars
  /\ IF focus = "federation" THEN FederationNext ELSE UNCHANGED federationVars
  /\ IF focus = "view" THEN ScopedNext ELSE UNCHANGED scopedVars

Spec == Init /\ [][Next]_componentVars /\ McpFairness

\* Types.
TypeOK ==
  /\ ScratchTypeOK /\ NixTypeOK /\ CampaignTypeOK /\ AdoptionTypeOK /\ ToolTypeOK
  /\ McpTypeOK /\ ReadingTypeOK /\ FederationTypeOK /\ ScopedTypeOK

\* The migration commands claim no more than they saw: the receipt a pass goes
\* by, a pass that succeeds, a recorded hash, a tool that is run (verify, adopt, resolve_tool).
MigrationsAreExact ==
  EffectiveIsLatest /\ SuccessMeansExact /\ RecordPinsTheFile /\ ToolClosureIsPinned
=============================================================================
