------------------------------ MODULE TrustChain ------------------------------
(***************************************************************************)
(* The agents table and the chain of trust over it: identities (create,    *)
(* issue, reissue), the account's agent (auth.rs), the catalog and its     *)
(* refresh of manifests (catalog.rs), the client that resolves a peer      *)
(* (discovery.rs, trust/verify.rs) and the catalogs of the lab (lab.rs).   *)
(*                                                                         *)
(* A resolve reads the row of its peer up to three times (in the catalog,  *)
(* for the card and for the key set) and the guarantor's keys from a cache *)
(* while others write the row: a catalog read that refreshes a manifest    *)
(* writes the whole row back, from a copy read before.  A digest is the    *)
(* card it is the digest of, a signature is the key that made it.          *)
(***************************************************************************)
EXTENDS FiniteSetsExt, Sequences

CONSTANTS
  Agents,
  Keys,           \* agents' signing keys
  NoKey,
  GuarantorKey,   \* GuarantorKey[d]: the guarantor's key of deployment d
  NextKey,        \* the successor's key, in every key set of the guarantor
  RogueKey,       \* a key nobody publishes for the guarantor
  Workers,
  MaxTime, MaxDeploys, MaxFailures

ASSUME TrustAssumption ==
  /\ Agents # {}
  /\ NoKey \notin Keys
  /\ RogueKey \notin Keys \union {NoKey, NextKey}
  /\ \A d \in 1..(MaxDeploys + 1) : RogueKey # GuarantorKey[d]
  /\ "nobody" \notin Agents   \* an issuer in no catalog
  /\ MaxTime \in Nat /\ MaxDeploys \in Nat /\ MaxFailures \in Nat

VARIABLES
  accounts,   \* the agents of accounts, the others are booking pages' (never changes)
  row,        \* the agents table
  deployed,   \* the deployment: its card template and its guarantor key
  cached,     \* the client's copy of the guarantor's key set, {} for none
  now,
  worker,
  used,       \* the keys issued
  failures

vars == <<accounts, row, deployed, cached, now, worker, used, failures>>
-----------------------------------------------------------------------------
Deploys == 1..(MaxDeploys + 1)
GKeys == {GuarantorKey[d] : d \in Deploys}
Validity == 2        \* of a manifest: 90 days
RefreshMargin == 1   \* 7 days
Times == 0..(MaxTime + Validity)

Card == [template : Deploys, key : Keys]
NoCard == [template |-> 0, key |-> NoKey]
Manifest == [card : Card, url : {"api", "lab"}, by : {"guarantor", "rogue"},
             key : GKeys \union {NextKey, RogueKey}, expires : Times, attested : {"no", "yes"}]
NoManifest == [card |-> NoCard, url |-> "none", by |-> "nobody", key |-> NoKey,
               expires |-> 0, attested |-> "no"]
NoRow == [card |-> NoCard, manifest |-> NoManifest, signing |-> NoKey]
Row == [card : Card, manifest : Manifest, signing : Keys]

Exists(a) == row[a] # NoRow
Published(d) == {GuarantorKey[d], NextKey}
Attested(a) == IF a \in accounts THEN "yes" ELSE "no"

\* LocalTrust::manifest_dated and manifest_for.
Dated(a, card, url, key, expires) ==
  [card |-> card, url |-> url, by |-> "guarantor", key |-> key, expires |-> expires,
   attested |-> Attested(a)]
ManifestFor(a, card, d) == Dated(a, card, "api", GuarantorKey[d], now + Validity)

\* is_current: what the manifest says, not which key signed it.
IsCurrent(r) ==
  /\ r.manifest # NoManifest
  /\ r.manifest.url = "api" /\ r.manifest.card = r.card
  /\ r.manifest.expires > now + RefreshMargin
-----------------------------------------------------------------------------
(* The client's checks (trust/verify.rs and resolve_inner), in their order. *)
Verdicts == {"accepted", "catalog_signature_missing", "catalog_signature_invalid",
             "manifest_missing", "trust_downgrade", "untrusted_guarantor",
             "manifest_signature_invalid", "manifest_subject_mismatch", "manifest_expired",
             "card_digest_mismatch", "card_signature_invalid", "attestation_missing",
             "invalid_peer_card", "keys_unavailable"}
Check(fails, code) == IF fails THEN code ELSE "accepted"
FirstRefusal(verdicts) ==
  LET refused == {i \in 1..Len(verdicts) : verdicts[i] # "accepted"}
  IN  IF refused = {} THEN "accepted" ELSE verdicts[Min(refused)]

Level == [integrity |-> 0, guaranteed |-> 1, verified_account |-> 2]
Policies == DOMAIN Level
Guaranteed(policy) == Level[policy] >= 1

CatalogVerdict(signature, policy) ==
  FirstRefusal(<<
    Check(signature = "none" /\ Guaranteed(policy), "catalog_signature_missing"),
    Check(signature = "invalid", "catalog_signature_invalid")>>)

EntryVerdictWithMargin(m, url, policy, keys, t) ==   \* faulty variant: wants the margin, too
  IF Guaranteed(policy) /\ m.expires <= t + RefreshMargin THEN "manifest_expired" ELSE "accepted"
EntryVerdict(m, url, policy, keys, t) ==
  FirstRefusal(<<
    Check(m = NoManifest, IF Guaranteed(policy) THEN "trust_downgrade" ELSE "manifest_missing"),
    Check(Guaranteed(policy) /\ m.by # "guarantor", "untrusted_guarantor"),
    Check(Guaranteed(policy) /\ m.key \notin keys, "manifest_signature_invalid"),
    Check(m.url # url, "manifest_subject_mismatch"),
    Check(Guaranteed(policy) /\ m.expires <= t, "manifest_expired")>>)

AnyDigest(m, card) == "accepted"   \* faulty variant
DigestVerdict(m, card) == Check(m.card # card, "card_digest_mismatch")

KeyVerdict(m, card, jwk, policy) ==
  FirstRefusal(<<
    Check(card.key # jwk, "card_signature_invalid"),
    Check(Level[policy] = 2 /\ m.attested = "no", "attestation_missing")>>)
-----------------------------------------------------------------------------
(* The lab: catalogs that are broken, each in one way (document and         *)
(* card_bytes of lab.rs), and what its table expects of the client.         *)
Expected ==
  [baseline |-> <<"accepted", "accepted">>,
   tampered_catalog |-> <<"catalog_signature_invalid", "catalog_signature_invalid">>,
   unsigned_catalog |-> <<"accepted", "catalog_signature_missing">>,
   substituted_card |-> <<"card_digest_mismatch", "card_digest_mismatch">>,
   replayed_entry |-> <<"manifest_subject_mismatch", "manifest_subject_mismatch">>,
   expired_manifest |-> <<"accepted", "manifest_expired">>,
   downgraded |-> <<"manifest_missing", "trust_downgrade">>,
   unknown_guarantor |-> <<"accepted", "untrusted_guarantor">>,
   impersonated_guarantor |-> <<"accepted", "manifest_signature_invalid">>,
   rotated_key |-> <<"accepted", "accepted">>,
   revoked_agent |-> <<"accepted", "accepted">>,
   mirror |-> <<"accepted", "accepted">>]
Scenarios == DOMAIN Expected

ExpectedVerdict(s, policy, a) ==
  IF Level[policy] = 0 THEN Expected[s][1]
  ELSE IF Level[policy] = 2 /\ Expected[s][2] = "accepted" /\ a \notin accounts
       THEN "attestation_missing" ELSE Expected[s][2]

LabSignature(s) ==
  CASE s = "unsigned_catalog" -> "none" [] s = "tampered_catalog" -> "invalid" [] OTHER -> "valid"

\* The manifest of the real entry, the stored one if there is one.
GenuineManifest(a) ==
  IF row[a].manifest # NoManifest THEN row[a].manifest ELSE ManifestFor(a, row[a].card, deployed)

LabManifest(s, a) ==
  LET genuine == Dated(a, row[a].card, "lab", GuarantorKey[deployed], now + Validity)
  IN  CASE s = "downgraded" -> NoManifest
        [] s = "replayed_entry" -> GenuineManifest(a)
        [] s = "expired_manifest" -> [genuine EXCEPT !.expires = now]
        [] s = "unknown_guarantor" -> [genuine EXCEPT !.by = "rogue", !.key = RogueKey]
        [] s = "impersonated_guarantor" -> [genuine EXCEPT !.key = RogueKey]
        [] s = "rotated_key" -> [genuine EXCEPT !.key = NextKey]
        [] OTHER -> genuine

LabCard(s, a) == IF s = "substituted_card" THEN NoCard ELSE row[a].card

\* One resolve of the lab's report: its client is new, so it has no cached keys.
LabVerdict(s, a, policy) ==
  LET m == LabManifest(s, a) IN
  FirstRefusal(<<CatalogVerdict(LabSignature(s), policy),
            EntryVerdict(m, "lab", policy, Published(deployed), now),
            DigestVerdict(m, LabCard(s, a)),
            KeyVerdict(m, LabCard(s, a), row[a].card.key, policy)>>)

\* The other half of the report: calls of the first agent, in an account or not,
\* whose headers are missing, genuine, of an issuer in no catalog, or forged.
NoHeader == [issuer |-> "none", key |-> NoKey]
LabHeader(c, a) ==
  CASE c = "unsigned_caller" -> NoHeader
    [] c = "signed_caller" -> [issuer |-> a, key |-> row[a].signing]
    [] c = "unguaranteed_caller" -> [issuer |-> "nobody", key |-> RogueKey]
    [] c = "forged_caller" -> [issuer |-> a, key |-> RogueKey]
ExpectedOfCaller ==   \* by a callee that is not an account's, and by one that is
  [unsigned_caller |-> <<"accepted", "caller_signature_missing">>,
   signed_caller |-> <<"accepted", "a2a_authorization_required">>,
   unguaranteed_caller |-> <<"caller_unguaranteed", "caller_unguaranteed">>,
   forged_caller |-> <<"caller_key_mismatch", "caller_key_mismatch">>]

\* A resolve that nothing disturbs, of an agent whose manifest is refreshed first.
QuietManifest(a) ==
  IF IsCurrent(row[a]) THEN row[a].manifest ELSE ManifestFor(a, row[a].card, deployed)
QuietVerdict(a, policy) ==
  FirstRefusal(<<EntryVerdict(QuietManifest(a), "api", policy, Published(deployed), now),
            DigestVerdict(QuietManifest(a), row[a].card),
            KeyVerdict(QuietManifest(a), row[a].card, row[a].card.key, policy)>>)

\* verify_caller (a2a.rs) and verify (caller.rs), then the capability, which the lab lacks.
CallerVerdict(header, policy, account) ==
  LET a == header.issuer IN
  CASE header = NoHeader /\ account -> "caller_signature_missing"
    [] header = NoHeader /\ ~account -> "accepted"
    [] header # NoHeader ->
         IF a \in Agents /\ QuietVerdict(a, policy) = "accepted"
         THEN FirstRefusal(<<Check(header.key # row[a].card.key, "caller_key_mismatch"),
                             Check(account, "a2a_authorization_required")>>)
         ELSE "caller_unguaranteed"
-----------------------------------------------------------------------------
PC == {"idle", "create", "again", "key", "update", "refresh", "entry", "card", "jwks", "done"}
Worker == [pc : PC, agent : Agents, deploy : Deploys, policy : Policies,
           copy : [card : Card, manifest : Manifest \union {NoManifest}, signing : Keys] \union {NoRow},
           card : Card \union {NoCard}, verdict : Verdicts, since : 0..MaxTime, cause : {"no", "yes"}]
IdleWorker ==
  [pc |-> "idle", agent |-> CHOOSE a \in Agents : TRUE, deploy |-> 1, policy |-> "integrity",
   copy |-> NoRow, card |-> NoCard, verdict |-> "accepted", since |-> 0, cause |-> "no"]

Started(a, pc) ==
  [IdleWorker EXCEPT !.pc = pc, !.agent = a, !.deploy = deployed, !.copy = row[a], !.since = now]
Goto(w, pc) == worker' = [worker EXCEPT ![w].pc = pc]
End(w) == worker' = [worker EXCEPT ![w] = IdleWorker]
\* A verdict; what was read is kept only by a resolve that goes on or accepts.
Judge(w, f, verdict, pc) ==
  worker' = [worker EXCEPT ![w] =
    IF verdict = "accepted" THEN [f EXCEPT !.pc = pc]
    ELSE [f EXCEPT !.pc = "done", !.verdict = verdict, !.copy = NoRow, !.card = NoCard]]
Fail == failures < MaxFailures /\ failures' = failures + 1

\* What the row's readers see differently from before: a cause for a refusal.
Resolving(w) == worker[w].pc \in {"refresh", "entry", "card", "jwks"}
Caused(a, f) == [v \in Workers |-> IF Resolving(v) /\ worker[v].agent = a
                                   THEN [f[v] EXCEPT !.cause = "yes"] ELSE f[v]]

Init ==
  /\ accounts \in SUBSET Agents
  /\ row = [a \in Agents |-> NoRow]
  /\ deployed = 1 /\ cached = {} /\ now = 0
  /\ worker = [w \in Workers |-> IdleWorker]
  /\ used = {} /\ failures = 0
-----------------------------------------------------------------------------
(* POST /auth/agent and the creation of a booking page's agent: the row is  *)
(* created once, whoever comes first; an account's card of another template *)
(* is issued again with the agent's key.                                    *)
AfterRead(w, a, r) ==
  IF r.card.template # worker[w].deploy /\ a \in accounts
  THEN [worker[w] EXCEPT !.pc = "key", !.copy = r] ELSE IdleWorker

AgentRead(w, a) ==
  /\ worker[w].pc = "idle"
  /\ Exists(a) => a \in accounts /\ row[a].card.template # deployed
  /\ worker' = [worker EXCEPT ![w] = Started(a, IF Exists(a) THEN "key" ELSE "create")]
  /\ UNCHANGED <<accounts, row, deployed, cached, now, used, failures>>

AgentCreate(w) ==
  LET a == worker[w].agent
      d == worker[w].deploy IN
  /\ worker[w].pc = "create"
  /\ IF Exists(a)
     THEN Goto(w, "again") /\ UNCHANGED <<accounts, row, used>>
     ELSE /\ \E k \in Keys \ used :
               LET card == [template |-> d, key |-> k] IN
               /\ row' = [row EXCEPT ![a] =
                            [card |-> card, manifest |-> ManifestFor(a, card, d), signing |-> k]]
               /\ used' = used \union {k}
          /\ worker' = Caused(a, [worker EXCEPT ![w] = IdleWorker])
  /\ UNCHANGED <<accounts, deployed, cached, now, failures>>

AgentReadWinner(w) ==
  LET a == worker[w].agent IN
  /\ worker[w].pc = "again"
  /\ worker' = [worker EXCEPT ![w] = IF Exists(a) THEN AfterRead(w, a, row[a]) ELSE IdleWorker]
  /\ UNCHANGED <<accounts, row, deployed, cached, now, used, failures>>

\* reissue: the key is the one that is stored.
AgentReadKey(w) ==
  LET a == worker[w].agent
      d == worker[w].deploy
      card == [template |-> d, key |-> row[a].signing] IN
  /\ worker[w].pc = "key"
  /\ IF Exists(a)
     THEN worker' = [worker EXCEPT ![w].pc = "update", ![w].copy =
            [card |-> card, manifest |-> ManifestFor(a, card, d), signing |-> row[a].signing]]
     ELSE End(w)
  /\ UNCHANGED <<accounts, row, deployed, cached, now, used, failures>>

\* update: the whole record of a row that exists, never its signing key.
UpdatedManifestOnly(a, r) == [row EXCEPT ![a].manifest = r.manifest]   \* faulty variant
UpdatedAnyway(a, r) ==   \* faulty variant: the row need not exist
  [row EXCEPT ![a].card = r.card, ![a].manifest = r.manifest]
Updated(a, r) ==
  IF Exists(a) THEN [row EXCEPT ![a].card = r.card, ![a].manifest = r.manifest] ELSE row

AgentUpdate(w) ==
  LET a == worker[w].agent IN
  /\ worker[w].pc = "update"
  /\ row' = Updated(a, worker[w].copy)
  /\ worker' = Caused(a, [worker EXCEPT ![w] = IdleWorker])
  /\ UNCHANGED <<accounts, deployed, cached, now, used, failures>>

\* The account is deleted, its agent with it; a request that read before, or that
\* comes before the account's own row goes, may create the agent again.
AgentDelete(a) ==
  /\ a \in accounts /\ Exists(a)
  /\ row' = [row EXCEPT ![a] = NoRow]
  /\ worker' = Caused(a, worker)
  /\ UNCHANGED <<accounts, deployed, cached, now, used, failures>>
-----------------------------------------------------------------------------
(* The resolve of a peer.  The catalog is read first; the server refreshes  *)
(* a manifest that is not current, or serves the entry without one.         *)
ResolveRead(w, a) ==
  /\ worker[w].pc = "idle" /\ Exists(a)
  /\ worker' = [worker EXCEPT ![w] = Started(a, IF IsCurrent(row[a]) THEN "entry" ELSE "refresh")]
  /\ UNCHANGED <<accounts, row, deployed, cached, now, used, failures>>

Refreshed(w) ==
  [worker[w].copy EXCEPT !.manifest = ManifestFor(worker[w].agent, worker[w].copy.card,
                                                  worker[w].deploy)]
CatalogRefresh(w) ==
  LET a == worker[w].agent IN
  /\ worker[w].pc = "refresh"
  /\ \/ row' = Updated(a, Refreshed(w)) /\ UNCHANGED failures
     \/ UNCHANGED row /\ Fail
  /\ worker' = LET f == [worker EXCEPT ![w].pc = "entry", ![w].copy = Refreshed(w)]
               IN  IF row'[a].card # row[a].card THEN Caused(a, f) ELSE f
  /\ UNCHANGED <<accounts, deployed, cached, now, used>>
CatalogRefreshFails(w) ==
  /\ worker[w].pc = "refresh"
  /\ worker' = [worker EXCEPT ![w].pc = "entry", ![w].copy.manifest = NoManifest,
                              ![w].cause = "yes"]
  /\ Fail
  /\ UNCHANGED <<accounts, row, deployed, cached, now, used>>

\* The entry and its manifest, under keys that may have been fetched before.
\* (The policy is the caller's; it matters from here on.)
KeysAt(m, policy) ==
  IF m # NoManifest /\ Guaranteed(policy) /\ cached = {} THEN Published(deployed) ELSE cached
ResolveEntry(w, policy) ==
  LET m == worker[w].copy.manifest IN
  /\ worker[w].pc = "entry"
  /\ cached' = KeysAt(m, policy)
  /\ Judge(w, [worker[w] EXCEPT !.policy = policy],
           FirstRefusal(<<CatalogVerdict("valid", policy),
                     EntryVerdict(m, "api", policy, KeysAt(m, policy), now)>>),
           "card")
  /\ UNCHANGED <<accounts, row, deployed, now, used, failures>>

ResolveCard(w) ==
  LET card == row[worker[w].agent].card IN
  /\ worker[w].pc = "card"
  /\ Judge(w, [worker[w] EXCEPT !.card = card],
           IF card = NoCard THEN "invalid_peer_card"
                            ELSE DigestVerdict(worker[w].copy.manifest, card),
           "jwks")
  /\ UNCHANGED <<accounts, row, deployed, cached, now, used, failures>>

ResolveKeys(w) ==
  LET a == worker[w].agent IN
  /\ worker[w].pc = "jwks"
  /\ Judge(w, worker[w],
           IF Exists(a)
           THEN KeyVerdict(worker[w].copy.manifest, worker[w].card, row[a].card.key,
                           worker[w].policy)
           ELSE "keys_unavailable",
           "done")
  /\ UNCHANGED <<accounts, row, deployed, cached, now, used, failures>>

ResolveEnds(w) ==
  /\ worker[w].pc = "done"
  /\ End(w)
  /\ UNCHANGED <<accounts, row, deployed, cached, now, used, failures>>

EndsEarly(w) ==
  /\ worker[w].pc \notin {"idle", "done"}
  /\ End(w)
  /\ Fail
  /\ UNCHANGED <<accounts, row, deployed, cached, now, used>>
-----------------------------------------------------------------------------
(* A deployment has a card template and may have another guarantor key; the *)
(* keys are cached for 300 seconds; a request spans one step of time.       *)
Deploy ==
  /\ deployed <= MaxDeploys
  /\ deployed' = deployed + 1
  /\ UNCHANGED <<accounts, row, cached, now, worker, used, failures>>

CacheExpires ==
  /\ cached # {}
  /\ cached' = {}
  /\ UNCHANGED <<accounts, row, deployed, now, worker, used, failures>>

Tick ==
  /\ now < MaxTime
  /\ \A w \in Workers : worker[w].pc = "idle" \/ worker[w].since = now
  /\ now' = now + 1
  /\ UNCHANGED <<accounts, row, deployed, cached, worker, used, failures>>

Next ==
  \/ \E w \in Workers, a \in Agents :
       AgentRead(w, a) \/ ResolveRead(w, a)
  \/ \E w \in Workers :
       \/ AgentCreate(w) \/ AgentReadWinner(w) \/ AgentReadKey(w) \/ AgentUpdate(w)
       \/ CatalogRefresh(w) \/ CatalogRefreshFails(w)
       \/ ResolveCard(w) \/ ResolveKeys(w) \/ ResolveEnds(w)
       \/ EndsEarly(w)
       \/ \E policy \in Policies : ResolveEntry(w, policy)
  \/ \E a \in Agents : AgentDelete(a)
  \/ Deploy \/ CacheExpires \/ Tick

Spec == Init /\ [][Next]_vars
-----------------------------------------------------------------------------
TypeOK ==
  /\ accounts \subseteq Agents
  /\ row \in [Agents -> Row \union {NoRow}]
  /\ deployed \in Deploys /\ now \in 0..MaxTime /\ failures \in 0..MaxFailures
  /\ cached \subseteq GKeys \union {NextKey}
  /\ worker \in [Workers -> Worker]
  /\ used \subseteq Keys

\* A stored record is of one piece: its manifest is about the card beside it,
\* and both are of the agent, although catalog reads write records back that
\* others replaced meanwhile (current_manifest, catalog.rs).
RecordsAreOfOnePiece ==
  \A a \in Agents : Exists(a) =>
    row[a].manifest.card = row[a].card /\ row[a].manifest.attested = Attested(a)

\* What a resolve accepts was vouched for as a whole: the manifest it checked
\* is about the very card it will call, and under the stronger policies it was
\* valid within the request's time; the card may be read long after the entry.
AcceptedIsVouchedFor ==
  \A w \in Workers :
    LET m == worker[w].copy.manifest IN
    worker[w].pc = "done" /\ worker[w].verdict = "accepted" =>
      /\ m.card = worker[w].card
      /\ Guaranteed(worker[w].policy) => m.expires > worker[w].since
      /\ Level[worker[w].policy] = 2 => worker[w].agent \in accounts

\* A resolve refuses an agent only for a cause: its row changed meanwhile, the
\* guarantor could not sign, its key is not the one of the key set, or a
\* verified account is asked of a booking page.  Refreshing a manifest is none.
RefusedForACause ==
  \A w \in Workers :
    worker[w].pc = "done" /\ worker[w].verdict # "accepted" =>
      \/ worker[w].cause = "yes"
      \/ worker[w].verdict = "manifest_signature_invalid" /\ deployed > 1
      \/ worker[w].verdict = "attestation_missing" /\ worker[w].agent \notin accounts

\* The lab's tables (SCENARIOS and caller_cases, lab.rs): for whatever rows the
\* lab derives its broken catalogs and callers from, the verdicts are the listed
\* ones.  The replayed entry reuses the stored manifest, which a retired key may
\* have signed; a caller must itself resolve, and have the key of its card (one
\* created again during a catalog read may not).
LabReportPasses ==
  \A a \in Agents, policy \in Policies :
    Exists(a) =>
      /\ \A s \in Scenarios :
           (s = "replayed_entry" => row[a].manifest.key \in Published(deployed))
             => LabVerdict(s, a, policy) = ExpectedVerdict(s, policy, a)
      /\ \A c \in DOMAIN ExpectedOfCaller, account \in BOOLEAN :
           \/ LabHeader(c, a).issuer = a /\ QuietVerdict(a, policy) # "accepted"
           \/ c = "signed_caller" /\ row[a].signing # row[a].card.key
           \/ CallerVerdict(LabHeader(c, a), policy, account)
                = ExpectedOfCaller[c][IF account THEN 2 ELSE 1]
=============================================================================
