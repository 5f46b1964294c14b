----------------------------- MODULE MCSessions -----------------------------
(* A campaign of three sessions: "a" was migrated and then superseded, "v" is *)
(* a variant derived from it and "d" is new.  A store with two good images    *)
(* and one nobody can read.  Three tools that import each other.              *)
EXTENDS SessionCampaign, StoreAdoption, PinnedTools

Sessions == {"a", "v", "d"}
Cell(n) == [kind |-> "integer", of |-> n]
Message(i, n) == [id |-> i, body |-> Cell(n)]
Holding(messages) == [row |-> Cell(1), messages |-> messages, links |-> <<>>]

Before == Holding(<<Message("m1", 1)>>)
After == Holding(<<Message("m1", 1), Message("m2", 5)>>)
Rounding == Holding(<<Message("m1", 1), Message("m2", 4)>>)
Derived == Holding(<<Message("n1", 1)>>)
Blobs == [row |-> [kind |-> "blob", of |-> 0], messages |-> <<>>,
          links |-> <<[table |-> "session_inbox", body |-> Cell(1)]>>]
SessionContents == {Before, After, Rounding, Derived, Blobs}

JournalNames == <<"journal-v2", "journal-v3", "journal-x">>
Base(journal, s, suffix, c, kind) ==
  [file |-> File(journal, s, suffix), claims |-> s, wellformed |-> TRUE, supersedes |-> {},
   kind |-> kind, digest |-> Digest(c), messages |-> Len(c.messages), source |-> "primary",
   input |-> Digest(c), recovery |-> 0, origin |-> {}, attempt |-> 0, map |-> <<>>,
   transformation |-> 1, boundary |-> {}]
Frozen1 == {[name |-> "v1", known |-> TRUE, digest |-> 1]}

First == Base("journal-v2", "a", 0, Before, "")
Second == [Base("journal-v3", "a", 0, After, "supersession")
             EXCEPT !.supersedes = {First.file}, !.boundary = Frozen1]
Variant == [Base("journal-v3", "v", 0, Derived, "divergent-variant")
              EXCEPT !.origin = {"a"}, !.input = Digest(Before), !.map = << <<"m1", "n1">> >>]
New == [Base("journal-v3", "d", 0, Before, "delta-new") EXCEPT !.boundary = Frozen1]
\* A third version, a receipt without its boundary, one that supersedes another
\* session's, two that supersede each other, one of another session, a broken one.
Third == [Base("journal-v3", "a", 2, Before, "supersession")
            EXCEPT !.supersedes = {Second.file}, !.boundary = Frozen1]
Loose == Base("journal-v3", "d", 0, Before, "delta-new")
Crossing == [Base("journal-x", "d", 0, Before, "") EXCEPT !.supersedes = {First.file}]
Cycle == {[Base("journal-x", "a", n, After, "") EXCEPT !.supersedes = {File("journal-x", "a", 2 - n)}] :
            n \in {0, 2}}
Stranger == [Base("journal-x", "d", 3, Before, "") EXCEPT !.claims = "a"]
Broken == [Base("journal-x", "v", 2, Derived, "") EXCEPT !.wellformed = FALSE]
AllReceipts == {First, Second, Variant, New, Third, Loose, Crossing, Stranger, Broken} \cup Cycle

Derivation == [k \in {<<"primary", "a", 0>>} |-> "v"]
Rekeying == [k \in Sessions \X {"m1", "m2", "n1"} |-> "n1"]
Primary == [source \in {"primary"} |-> [s \in Sessions |-> IF s = "a" THEN {Before} ELSE {}]]
FreezeRecords ==
  [b \in {"v1"} |-> [digest |-> 1, intact |-> TRUE, snapshot |->
     [s \in Sessions |-> IF s = "a" THEN {After} ELSE IF s = "d" THEN {Before} ELSE {}]]]
NothingRecovered == [s \in Sessions |-> 0]

Mapping == {[session |-> "v", messages |-> 1]}
VariantPin == [wellformed |-> TRUE, mapping |-> Mapping, transformation |-> 1, reconciliation |-> 1]
DeltaPin == [wellformed |-> TRUE, chainedTo |-> VariantPin, reconciliation |-> 1, inventory |-> {"d"}]
Pins == [variant |-> {VariantPin}, mapping |-> Mapping, delta |-> {DeltaPin}, inventory |-> {"d"}]
Progress(S, done) == [readable |-> TRUE, verified |-> S, total |-> Cardinality(S),
                      deferred |-> 0, errors |-> 0, complete |-> done]

\* A campaign that is finished; and three that change once less: one session under
\* way, one session and done, and one that has not begun.
FinishedCampaign ==
  [receipts |-> {First, Second, Variant, New}, progress |-> Progress({"a"}, TRUE),
   pins |-> Pins, healthy |-> TRUE, changes |-> 0,
   destination |-> [s \in Sessions |-> IF s = "a" THEN {After} ELSE IF s = "v" THEN {Derived} ELSE {Before}]]
StartedCampaign ==
  [FinishedCampaign EXCEPT !.receipts = {First}, !.progress = Progress({"a"}, FALSE),
     !.pins = [Pins EXCEPT !.variant = {}, !.delta = {}], !.changes = 1,
     !.destination = [s \in Sessions |-> IF s = "a" THEN {Before} ELSE {}]]
SmallCampaign == [StartedCampaign EXCEPT !.progress.complete = TRUE]
EmptyCampaign ==
  [StartedCampaign EXCEPT !.receipts = {}, !.progress = Progress({}, FALSE),
     !.destination = [s \in Sessions |-> {}]]
Campaigns == {FinishedCampaign, StartedCampaign, SmallCampaign, EmptyCampaign}

PassOptions ==
  {[limit |-> n, sessions |-> {}, sources |-> b, allowPartial |-> FALSE] : n \in {0, 1}, b \in BOOLEAN}
    \cup {[limit |-> 0, sessions |-> {"a"}, sources |-> FALSE, allowPartial |-> TRUE]}

StoreImage(i, marker) == [id |-> i, marker |-> marker, messages |-> TRUE, sound |-> TRUE, linked |-> i # 3]
Images == {StoreImage(1, "v2"), StoreImage(2, "v2"), StoreImage(3, "unrecognized")}

\* The tools as they were pinned and one edit of each: install imports lib, lib
\* imports util and install again, and an edited util imports lib.
SomeTexts == {"pinned", "edited"}
RelativeImports ==
  [f \in Tool |-> [t \in SomeTexts |->
     CASE f = "install" -> {"lib"}
       [] f = "lib" -> {"util", "install"}
       [] f = "util" /\ t = "edited" -> {"lib"}
       [] OTHER -> {}]]
\* Any files may be pinned; one entry has no digest.
PinFiles == {[f \in P |-> "pinned"] : P \in SUBSET Tool} \cup {[f \in Tool |-> IF f = "util" THEN "none" ELSE "pinned"]}
=============================================================================
