--------------------------- MODULE FederatedReading ---------------------------
(***************************************************************************)
(* Federation (chaosbox/src/federation): one reader, his own provider and  *)
(* the peers that share a project with him.  Each provider reloads its     *)
(* grants for every request and reads its knowledge afterwards; the owner   *)
(* publishes, selects and withdraws whenever he likes, also between the    *)
(* two reads of a drill-down.  Nothing is kept between two queries, and a   *)
(* handle is an address that anybody may write down.                       *)
(*                                                                         *)
(* One recipient, one project and one question: record and grant types say *)
(* what they mean to that recipient, for that project and that question.   *)
(***************************************************************************)
EXTENDS GraphRows

CONSTANTS
  Providers,     \* how many: the reader's own is number 1, the peers follow
  Knowledge,     \* Knowledge[p]: the generations p publishes, in order
  KeepsHistory,  \* the providers that can read a generation once it is not current
  Grants,        \* what a peer may grant the recipient, see GrantType
  Limit,         \* records asked for
  MaxChars,      \* characters asked for; a record has a size
  MaxRegrants    \* bound: changes of grants

VARIABLES
  generation,    \* generation[p]: the current one
  grants,        \* grants[p]: what p's policy file grants, and how often it changed
  jobs,          \* jobs[p]: p's part of the query
  query,         \* the query and its answer
  inForce        \* history: grants and generations in force since the query began

federationVars == <<generation, grants, jobs, query, inForce>>

Local == 1
Provider == 1 .. Providers
Peers == Provider \ {Local}

\* shared: admitted or disputed, and of the repository the project maps to.
\* score: terms it has in common with the question.  origin: the statement with its
\* primary citation; standing: the kind and status its owner gives it.
KnowledgeType == [id : Nat, shared : BOOLEAN, score : Nat, size : Nat, evidence : Nat,
                  origin : Nat, standing : Nat, contradicts : SUBSET Nat]
GrantType == [mode : {"none", "selected", "all"}, records : SUBSET Nat]

ASSUME FederationAssumption ==
  /\ Providers \in Nat \ {0} /\ KeepsHistory \subseteq Provider
  /\ {Limit, MaxChars, MaxRegrants} \subseteq Nat /\ Grants \subseteq GrantType
  /\ Knowledge \in [Provider -> Seq(SUBSET KnowledgeType) \ {<<>>}]
  /\ \A p \in Provider : \A n \in DOMAIN Knowledge[p] :
       /\ IsFiniteSet(Knowledge[p][n])
       /\ \A r, s \in Knowledge[p][n] : r.id = s.id => r = s
       /\ \A r \in Knowledge[p][n] : r.contradicts \subseteq {s.id : s \in Knowledge[p][n]}

\* A handle names a record of a generation; anybody may write one down.
Addresses ==
  UNION {UNION {{[provider |-> p, snapshot |-> n, id |-> r.id] : r \in Knowledge[p][n]} :
                 n \in DOMAIN Knowledge[p]} : p \in Provider}

-----------------------------------------------------------------------------
(* Policy::eligible and the projections of a Reader.                         *)

Eligible(p, grant, r) ==
  /\ r.shared
  /\ p = Local \/ grant.mode = "all" \/ (grant.mode = "selected" /\ r.id \in grant.records)

Allowed(p, grant, n) == {r.id : r \in {r \in Knowledge[p][n] : Eligible(p, grant, r)}}

\* Identities of other records are qualified and filtered, with a count of
\* those left out.
Project(p, n, r, allowed) ==
  [provider |-> p, snapshot |-> n, id |-> r.id, evidence |-> r.evidence, size |-> r.size,
   origin |-> r.origin, standing |-> r.standing, contradicts |-> r.contradicts \cap allowed,
   hidden |-> Cardinality(r.contradicts \ allowed), sameOrigin |-> {}]

Qualified(r) == <<r.provider, r.id>>
SourceKey(r) == <<r.origin, r.standing>>
Chars(records) ==
  FoldLeft(LAMBDA n, r : n + r.size + Cardinality(r.sameOrigin), 0, records)

Matching(p, grant, n) ==
  Ranked({r \in Knowledge[p][n] : Eligible(p, grant, r) /\ r.score > 0},
         LAMBDA r, s : r.score > s.score \/ (r.score = s.score /\ r.id < s.id))

\* Reader::context: a record that does not fit is passed over.
ContextPacket(p, grant, n) ==
  LET ranked == Matching(p, grant, n)
      fill(got, r) ==
        LET more == Append(got, Project(p, n, r, Allowed(p, grant, n)))
        IN  IF Len(got) < Limit /\ Chars(more) <= MaxChars THEN more ELSE got
      records == FoldLeft(fill, <<>>, ranked)
  IN  [identity |-> p, snapshot |-> n, records |-> records,
       omitted |-> Len(ranked) - Len(records)]

\* Mutant: the record was allowed when its handle was issued.
AllowedThen(p, grant, old, now) == Allowed(p, grant, old)

\* Reader::evidence: what both generations allow.
AllowedStill(p, grant, old, now) == Allowed(p, grant, old) \cap Allowed(p, grant, now)

Error(code) == {[error |-> code, body |-> <<>>]}
Reply(body) == {[error |-> "", body |-> <<body>>]}

DrillDown(p, grant, h, now) ==
  LET allowed == AllowedStill(p, grant, h.snapshot, now)
      found == {r \in Knowledge[p][h.snapshot] : r.id = h.id /\ r.id \in allowed}
  IN  IF found = {} THEN Error("denied")
      ELSE LET r == CHOOSE r \in found : TRUE IN
           IF r.size > MaxChars THEN Error("invalid")
           ELSE Reply(Project(p, h.snapshot, r, allowed))

-----------------------------------------------------------------------------
(* Owners.                                                                   *)

PublishKnowledge(p) ==
  /\ generation[p] < Len(Knowledge[p])
  /\ generation' = [generation EXCEPT ![p] = @ + 1]
  /\ inForce' = [inForce EXCEPT !.generations = @ \cup {<<p, generation[p] + 1>>}]
  /\ UNCHANGED <<grants, jobs, query>>

ChangeGrants(p, grant) ==
  /\ grants[p].changed < MaxRegrants /\ grant # grants[p].grant
  /\ grants' = [grants EXCEPT ![p] = [grant |-> grant, changed |-> @.changed + 1]]
  /\ inForce' = [inForce EXCEPT !.grants = @ \cup {<<p, grant>>}]
  /\ UNCHANGED <<generation, jobs, query>>

-----------------------------------------------------------------------------
(* The provider's side: FileProvider::query and Reader::query.               *)

NoGrant == [mode |-> "none", records |-> {}]
NoJob == [pc |-> "none", grant |-> NoGrant, current |-> 0, reply |-> {}]
Loading == [NoJob EXCEPT !.pc = "load"]
Replies(p, reply) == jobs' = [jobs EXCEPT ![p].pc = "answered", ![p].reply = reply]
Asks(kind) == query.kind = kind
Address == CHOOSE h \in query.handle : TRUE

LoadGrants(p) ==
  /\ jobs[p].pc = "load"
  /\ IF p # Local /\ grants[p].grant.mode = "none"
       THEN Replies(p, Error("denied"))
       ELSE jobs' = [jobs EXCEPT ![p].pc = "read", ![p].grant = grants[p].grant]
  /\ UNCHANGED <<generation, grants, query, inForce>>

AnswerContext(p) ==
  /\ jobs[p].pc = "read" /\ Asks("context")
  /\ Replies(p, Reply(ContextPacket(p, jobs[p].grant, generation[p])))
  /\ UNCHANGED <<generation, grants, query, inForce>>

\* A drill-down reads the current generation first: a record that is gone or
\* withdrawn is not looked up in an old one.
ReadCurrent(p) ==
  /\ jobs[p].pc = "read" /\ Asks("evidence")
  /\ LET now == generation[p] IN
     IF Address.id \notin Allowed(p, jobs[p].grant, now) THEN Replies(p, Error("denied"))
     ELSE IF Address.snapshot = now THEN Replies(p, DrillDown(p, jobs[p].grant, Address, now))
     ELSE jobs' = [jobs EXCEPT ![p].pc = "history", ![p].current = now]
  /\ UNCHANGED <<generation, grants, query, inForce>>

\* KnowledgeSource::snapshot: exactly the generation that is named.
ReadHistory(p) ==
  /\ jobs[p].pc = "history"
  /\ LET n == Address.snapshot IN
     IF n = generation[p] \/ (p \in KeepsHistory /\ n < generation[p])
       THEN Replies(p, DrillDown(p, jobs[p].grant, Address, jobs[p].current))
       ELSE Replies(p, Error("snapshot_unavailable"))
  /\ UNCHANGED <<generation, grants, query, inForce>>

\* A backend that fails, a connection that is lost, a deadline that passes.
Unavailable(p) ==
  /\ jobs[p].pc \in {"load", "read", "history"}
  /\ Replies(p, Error("unavailable"))
  /\ UNCHANGED <<generation, grants, query, inForce>>

\* A peer that answers as another provider, twice with the same record, or
\* from another generation than its handle names.
Misanswers(p) ==
  /\ p \in Peers /\ jobs[p].pc = "load"
  /\ LET own == ContextPacket(p, [mode |-> "all", records |-> {}], generation[p])
         drilled == UNION {{Project(p, n, r, {}) : r \in Knowledge[p][n]} : n \in DOMAIN Knowledge[p]}
     IN \/ /\ Asks("context")
           /\ \/ Replies(p, Reply([own EXCEPT !.identity = Local]))
              \/ own.records # <<>> /\ Replies(p, Reply([own EXCEPT !.records = <<@[1], @[1]>>]))
        \/ /\ Asks("evidence")
           /\ \E r \in drilled : r.snapshot # Address.snapshot /\ Replies(p, Reply(r))
  /\ UNCHANGED <<generation, grants, query, inForce>>

-----------------------------------------------------------------------------
(* The federator.                                                            *)

NoAnswer == [records |-> <<>>, sources |-> <<>>, degraded |-> FALSE, omitted |-> 0]
NoQuery == [pc |-> "idle", kind |-> "none", handle |-> {}, answer |-> NoAnswer]
Now == [grants |-> {<<p, grants[p].grant>> : p \in Provider},
        generations |-> {<<p, generation[p]>> : p \in Provider}]

AskContext ==
  /\ query.pc = "idle"
  /\ query' = [NoQuery EXCEPT !.pc = "local", !.kind = "context"]
  /\ jobs' = [jobs EXCEPT ![Local] = Loading]
  /\ inForce' = Now
  /\ UNCHANGED <<generation, grants>>

\* Peers are consulted whatever the local provider had to say; there is time
\* left for them.
ConsultPeers ==
  /\ query.pc = "local" /\ jobs[Local].pc = "answered"
  /\ query' = [query EXCEPT !.pc = "peers"]
  /\ jobs' = [p \in Provider |-> IF p \in Peers THEN Loading ELSE jobs[p]]
  /\ UNCHANGED <<generation, grants, inForce>>

ValidPacket(packet, p) ==
  /\ packet.identity = p
  /\ Len(packet.records) <= Limit /\ Chars(packet.records) <= MaxChars
  /\ \A i \in DOMAIN packet.records : LET r == packet.records[i] IN
       /\ r.provider = p /\ r.snapshot = packet.snapshot /\ r.sameOrigin = {}
       /\ \A j \in DOMAIN packet.records : packet.records[j].id = r.id => i = j

\* assemble: an invalid packet is an error of its provider.
Accepted(reply, p) ==
  IF reply.error = "" /\ ~ ValidPacket(reply.body[1], p)
    THEN [error |-> "invalid_response", body |-> <<>>] ELSE reply

Status(reply) ==
  IF reply.error = "" THEN [error |-> "", snapshot |-> {reply.body[1].snapshot}, omitted |-> reply.body[1].omitted]
  ELSE [error |-> reply.error, snapshot |-> {}, omitted |-> 0]

\* Mutant: only the record that is added is marked.
MarksLast(records) ==
  [i \in DOMAIN records |-> IF i < Len(records) THEN records[i] ELSE [records[i] EXCEPT !.sameOrigin =
     {Qualified(records[j]) : j \in {j \in DOMAIN records : SourceKey(records[j]) = SourceKey(records[i]) /\ j # i}}]]

\* group_origins: records that share their primary source, and that their owners
\* see alike, point at each other.
GroupOrigins(records) ==
  [i \in DOMAIN records |-> [records[i] EXCEPT !.sameOrigin =
     {Qualified(records[j]) : j \in {j \in DOMAIN records : SourceKey(records[j]) = SourceKey(records[i])}}
       \ {Qualified(records[i])}]]

\* The providers take turns, so that the local one does not use every slot.
TakeTurns(groups) ==
  LET turn(got, k) ==
        LET group == groups[(k % Len(groups)) + 1]
            position == (k \div Len(groups)) + 1
            proposed == GroupOrigins(Append(got, group[position]))
        IN  IF Len(got) < Limit /\ position <= Len(group) /\ Chars(proposed) <= MaxChars
              THEN proposed ELSE got
  IN  FoldLeft(turn, <<>>, [k \in 1 .. Limit * Len(groups) |-> k - 1])

Assemble ==
  /\ query.pc = "peers" /\ \A p \in Provider : jobs[p].pc = "answered"
  /\ LET replies == [p \in Provider |-> Accepted(CHOOSE r \in jobs[p].reply : TRUE, p)]
         good == Ranked({p \in Provider : replies[p].error = ""}, <)
         groups == [i \in DOMAIN good |-> replies[good[i]].body[1].records]
         records == IF groups = <<>> THEN <<>> ELSE TakeTurns(groups)
     IN  query' = [query EXCEPT !.pc = "done", !.answer =
           [records |-> records, sources |-> [p \in Provider |-> Status(replies[p])],
            degraded |-> \E p \in Provider : replies[p].error # "",
            omitted |-> FoldLeft(LAMBDA n, g : n + Len(g), 0, groups) - Len(records)]]
  /\ UNCHANGED <<generation, grants, jobs, inForce>>

\* Federator::evidence: the provider that is named, and no other one.
AskEvidence(h) ==
  /\ query.pc = "idle"
  /\ query' = [NoQuery EXCEPT !.pc = "evidence", !.kind = "evidence", !.handle = {h}]
  /\ jobs' = [jobs EXCEPT ![h.provider] = Loading]
  /\ inForce' = Now
  /\ UNCHANGED <<generation, grants>>

\* The record of the handle, or an error.
ReturnEvidence ==
  /\ query.pc = "evidence" /\ jobs[Address.provider].pc = "answered"
  /\ \E reply \in jobs[Address.provider].reply :
       LET named == reply.error = "" /\ reply.body[1].provider = Address.provider
                      /\ reply.body[1].snapshot = Address.snapshot /\ reply.body[1].id = Address.id
       IN  query' = [query EXCEPT !.pc = "done",
             !.answer.records = IF named THEN reply.body ELSE <<>>,
             !.answer.degraded = ~ named]
  /\ UNCHANGED <<generation, grants, jobs, inForce>>

Forget ==
  /\ query.pc = "done"
  /\ query' = NoQuery
  /\ jobs' = [p \in Provider |-> NoJob]
  /\ inForce' = [grants |-> {}, generations |-> {}]
  /\ UNCHANGED <<generation, grants>>

-----------------------------------------------------------------------------
FederationInit ==
  /\ generation = [p \in Provider |-> 1]
  /\ grants = [p \in Provider |-> [grant |-> NoGrant, changed |-> 0]]
  /\ jobs = [p \in Provider |-> NoJob]
  /\ query = NoQuery
  /\ inForce = [grants |-> {}, generations |-> {}]

FederationNext ==
  \/ \E p \in Provider :
       PublishKnowledge(p) \/ LoadGrants(p) \/ AnswerContext(p) \/ ReadCurrent(p)
         \/ ReadHistory(p) \/ Unavailable(p) \/ Misanswers(p)
  \/ \E p \in Peers, g \in Grants : ChangeGrants(p, g)
  \/ AskContext \/ ConsultPeers \/ Assemble
  \/ (\E h \in Addresses : AskEvidence(h)) \/ ReturnEvidence \/ Forget

FederationSpec == FederationInit /\ [][FederationNext]_federationVars

-----------------------------------------------------------------------------
\* Types.
FederationTypeOK ==
  /\ \A p \in Provider :
       /\ generation[p] \in DOMAIN Knowledge[p]
       /\ grants[p].grant \in Grants \cup {NoGrant} /\ grants[p].changed \in 0 .. MaxRegrants
       /\ jobs[p].pc \in {"none", "load", "read", "history", "answered"}
       /\ jobs[p].pc = "answered" <=> jobs[p].reply # {}
  /\ query.pc \in {"idle", "local", "peers", "evidence", "done"}
  /\ query.handle \subseteq Addresses

\* Whatever is disclosed was granted to the recipient, and was shared in the
\* owner's current generation, while the query was under way: a handle kept
\* from an earlier answer shows nothing that was deleted, withheld or
\* unselected before, names no record that is hidden, and never shows another
\* generation than the one it names (Reader::query, Federator::evidence).
DisclosureIsAuthorized ==
  \A i \in DOMAIN query.answer.records :
    LET r == query.answer.records[i]
        p == r.provider
    IN  /\ \E g \in {x[2] : x \in {x \in inForce.grants : x[1] = p}},
              n \in {x[2] : x \in {x \in inForce.generations : x[1] = p}} :
             /\ p = Local \/ g.mode # "none"
             /\ {r.id} \cup r.contradicts \subseteq Allowed(p, g, n) \cap Allowed(p, g, r.snapshot)
        /\ \E k \in Knowledge[p][r.snapshot] : k.id = r.id /\ k.evidence = r.evidence
        /\ \A h \in query.handle : h = [provider |-> p, snapshot |-> r.snapshot, id |-> r.id]

\* A combined answer accounts for every provider and every match: one status
\* each, local first; no failure goes unmentioned; what is returned and what is
\* said to be omitted add up to the matches of the providers that answered; the
\* records that share a source and its kind and status, and no others, say so
\* (assemble, group_origins).
PacketIsHonest ==
  query.pc = "done" /\ Asks("context") =>
    LET a == query.answer
        answered == {p \in Provider : a.sources[p].error = ""}
        matching(p) == {r.id : r \in {r \in Knowledge[p][CHOOSE n \in a.sources[p].snapshot : TRUE] :
                                        Eligible(p, jobs[p].grant, r) /\ r.score > 0}}
        returned == {Qualified(a.records[i]) : i \in DOMAIN a.records}
    IN  /\ DOMAIN a.sources = Provider /\ (a.degraded <=> answered # Provider)
        /\ Len(a.records) <= Limit /\ Chars(a.records) <= MaxChars
        /\ Cardinality(returned) = Len(a.records)
        /\ returned \subseteq UNION {{<<p, id>> : id \in matching(p)} : p \in answered}
        /\ Len(a.records) + a.omitted
             + FoldLeft(LAMBDA n, s : n + s.omitted, 0, a.sources)
             = FoldLeft(LAMBDA n, p : n + (IF p \in answered THEN Cardinality(matching(p)) ELSE 0),
                        0, [p \in Provider |-> p])
        /\ \A i, j \in DOMAIN a.records : i # j =>
             (SourceKey(a.records[i]) = SourceKey(a.records[j]) <=> Qualified(a.records[i]) \in a.records[j].sameOrigin)

\* What the documentation says of sources: of two records returned with the same
\* primary source each names the other, whatever their owners make of it
\* (group_origins).  It does not hold: the key has more than the source.
SameSourceIsMarked ==
  query.pc = "done" /\ Asks("context") =>
    \A i, j \in DOMAIN query.answer.records :
      LET r == query.answer.records[i]
          s == query.answer.records[j]
      IN  i # j /\ r.origin = s.origin => Qualified(r) \in s.sameOrigin
=============================================================================
