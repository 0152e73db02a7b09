--------------------------- MODULE TrustChainProofs ---------------------------
(***************************************************************************)
(* The chain of trust, proved for every set of agents, workers and keys,   *)
(* every number of deployments and failures and every length of time.      *)
(*                                                                         *)
(* First what the client's verdicts say, then what each request holds at   *)
(* each of its steps (IInv), kept by every action; then why a resolve      *)
(* refuses (CInv), and what the lab's table makes of the stored records.   *)
(***************************************************************************)
EXTENDS TrustChain, WellFoundedInduction, TLAPS

LEMMA MinIs ==
  ASSUME NEW S \in SUBSET Nat, S # {}
  PROVE  Min(S) \in S /\ \A y \in S : Min(S) <= y
<1>1. PICK x \in S : \A y \in S : ~(<<y, x>> \in OpToRel(<, Nat))
  BY WFMin, NatLessThanWellFounded
<1>2. ASSUME NEW y \in S
      PROVE  x <= y
  <2>1. <<y, x>> \notin OpToRel(<, Nat)
    BY <1>1
  <2>2. <<y, x>> \in Nat \X Nat
    OBVIOUS
  <2>3. ~(<<y, x>>[1] < <<y, x>>[2])
    BY <2>1, <2>2 DEF OpToRel
  <2> QED BY <2>3
<1> QED BY <1>2 DEF Min

LEMMA FirstRefusalAt ==
  ASSUME NEW verdicts, Len(verdicts) \in Nat, NEW n \in 1..Len(verdicts),
         verdicts[n] # "accepted", \A i \in 1..Len(verdicts) : i < n => verdicts[i] = "accepted"
  PROVE  FirstRefusal(verdicts) = verdicts[n]
<1> DEFINE refused == {i \in 1..Len(verdicts) : verdicts[i] # "accepted"}
<1>1. refused \in SUBSET Nat /\ n \in refused
  OBVIOUS
<1>2. FirstRefusal(verdicts) = verdicts[Min(refused)]
  BY <1>1 DEF FirstRefusal
<1>3. Min(refused) \in refused /\ Min(refused) <= n
  <2> HIDE DEF refused
  <2> QED BY <1>1, MinIs
<1>4. ~(Min(refused) < n)
  BY <1>3
<1>5. Min(refused) = n
  BY <1>3, <1>4
<1> QED BY <1>2, <1>5

LEMMA NoRefusal ==
  ASSUME NEW verdicts, Len(verdicts) \in Nat,
         \A i \in 1..Len(verdicts) : verdicts[i] = "accepted"
  PROVE  FirstRefusal(verdicts) = "accepted"
<1>1. {i \in 1..Len(verdicts) : verdicts[i] # "accepted"} = {}
  OBVIOUS
<1> QED BY <1>1 DEF FirstRefusal

LEMMA FirstOfTwo ==
  ASSUME NEW v1, NEW v2
  PROVE  FirstRefusal(<<v1, v2>>) = IF v1 # "accepted" THEN v1 ELSE v2
<1> DEFINE verdicts == <<v1, v2>>
<1>1. Len(verdicts) = 2 /\ verdicts[1] = v1 /\ verdicts[2] = v2
  OBVIOUS
<1> HIDE DEF verdicts
<1>2. Len(verdicts) \in Nat
  BY <1>1
<1>3. CASE v1 # "accepted"
  <2>1. FirstRefusal(verdicts) = verdicts[1]
    BY <1>1, <1>2, <1>3, FirstRefusalAt
  <2> QED BY <1>1, <1>3, <2>1 DEF verdicts
<1>4. CASE v1 = "accepted" /\ v2 # "accepted"
  <2>1. FirstRefusal(verdicts) = verdicts[2]
    BY <1>1, <1>2, <1>4, FirstRefusalAt
  <2> QED BY <1>1, <1>4, <2>1 DEF verdicts
<1>5. CASE v1 = "accepted" /\ v2 = "accepted"
  <2>1. FirstRefusal(verdicts) = "accepted"
    BY <1>1, <1>2, <1>5, NoRefusal
  <2> QED BY <1>5, <2>1 DEF verdicts
<1> QED BY <1>3, <1>4, <1>5

LEMMA FirstOfFour ==
  ASSUME NEW v1, NEW v2, NEW v3, NEW v4
  PROVE  FirstRefusal(<<v1, v2, v3, v4>>) =
           IF v1 # "accepted" THEN v1 ELSE IF v2 # "accepted" THEN v2
           ELSE IF v3 # "accepted" THEN v3 ELSE v4
<1> DEFINE verdicts == <<v1, v2, v3, v4>>
<1>1. /\ Len(verdicts) = 4 /\ verdicts[1] = v1 /\ verdicts[2] = v2 /\ verdicts[3] = v3
      /\ verdicts[4] = v4
  OBVIOUS
<1> HIDE DEF verdicts
<1>2. Len(verdicts) \in Nat
  BY <1>1
<1>3. CASE v1 # "accepted"
  <2>1. FirstRefusal(verdicts) = verdicts[1]
    BY <1>1, <1>2, <1>3, FirstRefusalAt
  <2> QED BY <1>1, <1>3, <2>1 DEF verdicts
<1>4. CASE v1 = "accepted" /\ v2 # "accepted"
  <2>1. FirstRefusal(verdicts) = verdicts[2]
    BY <1>1, <1>2, <1>4, FirstRefusalAt
  <2> QED BY <1>1, <1>4, <2>1 DEF verdicts
<1>5. CASE v1 = "accepted" /\ v2 = "accepted" /\ v3 # "accepted"
  <2>1. FirstRefusal(verdicts) = verdicts[3]
    BY <1>1, <1>2, <1>5, FirstRefusalAt
  <2> QED BY <1>1, <1>5, <2>1 DEF verdicts
<1>6. CASE v1 = "accepted" /\ v2 = "accepted" /\ v3 = "accepted" /\ v4 # "accepted"
  <2>1. FirstRefusal(verdicts) = verdicts[4]
    BY <1>1, <1>2, <1>6, FirstRefusalAt
  <2> QED BY <1>1, <1>6, <2>1 DEF verdicts
<1>7. CASE v1 = "accepted" /\ v2 = "accepted" /\ v3 = "accepted" /\ v4 = "accepted"
  <2>1. FirstRefusal(verdicts) = "accepted"
    BY <1>1, <1>2, <1>7, NoRefusal
  <2> QED BY <1>7, <2>1 DEF verdicts
<1> QED BY <1>3, <1>4, <1>5, <1>6, <1>7

LEMMA FirstOfFive ==
  ASSUME NEW v1, NEW v2, NEW v3, NEW v4, NEW v5
  PROVE  FirstRefusal(<<v1, v2, v3, v4, v5>>) =
           IF v1 # "accepted" THEN v1 ELSE IF v2 # "accepted" THEN v2
           ELSE IF v3 # "accepted" THEN v3 ELSE IF v4 # "accepted" THEN v4 ELSE v5
<1> DEFINE verdicts == <<v1, v2, v3, v4, v5>>
<1>1. /\ Len(verdicts) = 5 /\ verdicts[1] = v1 /\ verdicts[2] = v2 /\ verdicts[3] = v3
      /\ verdicts[4] = v4 /\ verdicts[5] = v5
  OBVIOUS
<1> HIDE DEF verdicts
<1>2. Len(verdicts) \in Nat
  BY <1>1
<1>3. CASE v1 # "accepted"
  <2>1. FirstRefusal(verdicts) = verdicts[1]
    BY <1>1, <1>2, <1>3, FirstRefusalAt
  <2> QED BY <1>1, <1>3, <2>1 DEF verdicts
<1>4. CASE v1 = "accepted" /\ v2 # "accepted"
  <2>1. FirstRefusal(verdicts) = verdicts[2]
    BY <1>1, <1>2, <1>4, FirstRefusalAt
  <2> QED BY <1>1, <1>4, <2>1 DEF verdicts
<1>5. CASE v1 = "accepted" /\ v2 = "accepted" /\ v3 # "accepted"
  <2>1. FirstRefusal(verdicts) = verdicts[3]
    BY <1>1, <1>2, <1>5, FirstRefusalAt
  <2> QED BY <1>1, <1>5, <2>1 DEF verdicts
<1>6. CASE v1 = "accepted" /\ v2 = "accepted" /\ v3 = "accepted" /\ v4 # "accepted"
  <2>1. FirstRefusal(verdicts) = verdicts[4]
    BY <1>1, <1>2, <1>6, FirstRefusalAt
  <2> QED BY <1>1, <1>6, <2>1 DEF verdicts
<1>7. CASE v1 = "accepted" /\ v2 = "accepted" /\ v3 = "accepted" /\ v4 = "accepted" /\ v5 # "accepted"
  <2>1. FirstRefusal(verdicts) = verdicts[5]
    BY <1>1, <1>2, <1>7, FirstRefusalAt
  <2> QED BY <1>1, <1>7, <2>1 DEF verdicts
<1>8. CASE v1 = "accepted" /\ v2 = "accepted" /\ v3 = "accepted" /\ v4 = "accepted" /\ v5 = "accepted"
  <2>1. FirstRefusal(verdicts) = "accepted"
    BY <1>1, <1>2, <1>8, NoRefusal
  <2> QED BY <1>8, <2>1 DEF verdicts
<1> QED BY <1>3, <1>4, <1>5, <1>6, <1>7, <1>8

\* The verdicts, spelled out: the first refusal counts.
LEMMA CatalogVerdictSays ==
  ASSUME NEW signature, NEW policy
  PROVE  CatalogVerdict(signature, policy) =
           IF signature = "none" /\ Guaranteed(policy) THEN "catalog_signature_missing"
           ELSE IF signature = "invalid" THEN "catalog_signature_invalid" ELSE "accepted"
BY FirstOfTwo DEF CatalogVerdict, Check

LEMMA EntryVerdictSays ==
  ASSUME NEW m, NEW url, NEW policy, NEW keys, NEW t
  PROVE  EntryVerdict(m, url, policy, keys, t) =
           IF m = NoManifest
           THEN IF Guaranteed(policy) THEN "trust_downgrade" ELSE "manifest_missing"
           ELSE IF Guaranteed(policy) /\ m.by # "guarantor" THEN "untrusted_guarantor"
           ELSE IF Guaranteed(policy) /\ m.key \notin keys THEN "manifest_signature_invalid"
           ELSE IF m.url # url THEN "manifest_subject_mismatch"
           ELSE IF Guaranteed(policy) /\ m.expires <= t THEN "manifest_expired"
           ELSE "accepted"
<1> DEFINE v1 == Check(m = NoManifest,
                       IF Guaranteed(policy) THEN "trust_downgrade" ELSE "manifest_missing")
           v2 == Check(Guaranteed(policy) /\ m.by # "guarantor", "untrusted_guarantor")
           v3 == Check(Guaranteed(policy) /\ m.key \notin keys, "manifest_signature_invalid")
           v4 == Check(m.url # url, "manifest_subject_mismatch")
           v5 == Check(Guaranteed(policy) /\ m.expires <= t, "manifest_expired")
<1>1. EntryVerdict(m, url, policy, keys, t) = FirstRefusal(<<v1, v2, v3, v4, v5>>)
  BY DEF EntryVerdict
<1>2. /\ v1 = IF m = NoManifest
              THEN IF Guaranteed(policy) THEN "trust_downgrade" ELSE "manifest_missing"
              ELSE "accepted"
      /\ v2 = IF Guaranteed(policy) /\ m.by # "guarantor" THEN "untrusted_guarantor" ELSE "accepted"
      /\ v3 = IF Guaranteed(policy) /\ m.key \notin keys
              THEN "manifest_signature_invalid" ELSE "accepted"
      /\ v4 = IF m.url # url THEN "manifest_subject_mismatch" ELSE "accepted"
      /\ v5 = IF Guaranteed(policy) /\ m.expires <= t THEN "manifest_expired" ELSE "accepted"
  BY DEF Check
<1> HIDE DEF v1, v2, v3, v4, v5
<1>3. EntryVerdict(m, url, policy, keys, t) =
           IF v1 # "accepted" THEN v1 ELSE IF v2 # "accepted" THEN v2
           ELSE IF v3 # "accepted" THEN v3 ELSE IF v4 # "accepted" THEN v4 ELSE v5
  BY <1>1, FirstOfFive
<1> QED BY <1>2, <1>3

LEMMA KeyVerdictSays ==
  ASSUME NEW m, NEW card, NEW jwk, NEW policy
  PROVE  KeyVerdict(m, card, jwk, policy) =
           IF card.key # jwk THEN "card_signature_invalid"
           ELSE IF Level[policy] = 2 /\ m.attested = "no" THEN "attestation_missing"
           ELSE "accepted"
BY FirstOfTwo DEF KeyVerdict, Check

\* What they say when they accept.
LEMMA TwoVerdicts ==
  ASSUME NEW v1 \in Verdicts, NEW v2 \in Verdicts
  PROVE  /\ FirstRefusal(<<v1, v2>>) \in Verdicts
         /\ FirstRefusal(<<v1, v2>>) = "accepted" => v1 = "accepted" /\ v2 = "accepted"
BY FirstOfTwo

LEMMA EntryVerdictIs ==
  ASSUME NEW m, NEW url, NEW policy, NEW keys, NEW t
  PROVE  /\ EntryVerdict(m, url, policy, keys, t) \in Verdicts
         /\ EntryVerdict(m, url, policy, keys, t) = "accepted" =>
              m # NoManifest /\ (Guaranteed(policy) => ~(m.expires <= t))
BY EntryVerdictSays DEF Verdicts

LEMMA CatalogVerdictIs ==
  ASSUME NEW signature, NEW policy
  PROVE  CatalogVerdict(signature, policy) \in Verdicts
BY CatalogVerdictSays DEF Verdicts

LEMMA DigestVerdictIs ==
  ASSUME NEW m, NEW card
  PROVE  /\ DigestVerdict(m, card) \in Verdicts
         /\ DigestVerdict(m, card) = "accepted" => m.card = card
BY DEF DigestVerdict, Check, Verdicts

LEMMA KeyVerdictIs ==
  ASSUME NEW m, NEW card, NEW jwk, NEW policy
  PROVE  /\ KeyVerdict(m, card, jwk, policy) \in Verdicts
         /\ KeyVerdict(m, card, jwk, policy) = "accepted" =>
              ~(Level[policy] = 2 /\ m.attested = "no")
BY KeyVerdictSays DEF Verdicts
-----------------------------------------------------------------------------
(* The inductive invariant: what each request holds, at each of its steps.  *)
OfOnePiece(acc, a, r) ==
  r.manifest.card = r.card /\ r.manifest.attested = (IF a \in acc THEN "yes" ELSE "no")
Record == [card : Card, manifest : Manifest \union {NoManifest}, signing : Keys]

VouchedFor(f, acc) ==
  /\ f.copy.manifest.card = f.card
  /\ Guaranteed(f.policy) => f.copy.manifest.expires > f.since
  /\ Level[f.policy] = 2 => f.agent \in acc

WorkerOK(f, acc, t) ==
  /\ f \in Worker /\ f.since <= t
  /\ f.pc = "update" => f.copy \in Row /\ OfOnePiece(acc, f.agent, f.copy)
  /\ f.pc \in {"refresh", "entry", "card", "jwks"} => f.copy \in Record
  /\ f.pc = "entry" /\ f.copy.manifest # NoManifest => OfOnePiece(acc, f.agent, f.copy)
  /\ f.pc \in {"card", "jwks"} =>
       /\ f.copy.manifest # NoManifest /\ OfOnePiece(acc, f.agent, f.copy)
       /\ Guaranteed(f.policy) => f.copy.manifest.expires > f.since
  /\ f.pc = "jwks" => f.copy.manifest.card = f.card
  /\ f.pc = "done" /\ f.verdict = "accepted" => VouchedFor(f, acc)

RowsOK ==
  /\ row \in [Agents -> Row \union {NoRow}]
  /\ \A a \in Agents : row[a] # NoRow => OfOnePiece(accounts, a, row[a])
WorkersOK ==
  /\ worker \in [Workers -> Worker]
  /\ \A w \in Workers : WorkerOK(worker[w], accounts, now)
RestOK ==
  /\ accounts \subseteq Agents
  /\ deployed \in Deploys /\ now \in 0..MaxTime /\ failures \in 0..MaxFailures
  /\ cached \subseteq GKeys \union {NextKey}
  /\ used \subseteq Keys
IInv == RowsOK /\ WorkersOK /\ RestOK

LEMMA Nothing == NoCard \notin Card /\ NoRow \notin Row /\ NoManifest \notin Manifest
<1>1. NoCard \notin Card
  BY TrustAssumption DEF NoCard, Card
<1> QED BY <1>1 DEF NoRow, Row, NoManifest, Manifest

LEMMA IdleIsOK ==
  ASSUME NEW acc, NEW t \in Nat
  PROVE  WorkerOK(IdleWorker, acc, t)
<1>1. (CHOOSE a \in Agents : TRUE) \in Agents
  BY TrustAssumption
<1>2. 1 \in Deploys /\ 0 \in 0..MaxTime
  BY TrustAssumption DEF Deploys
<1>3. "integrity" \in Policies
  BY DEF Policies, Level
<1>4. IdleWorker \in Worker
  BY <1>1, <1>2, <1>3 DEF IdleWorker, Worker, PC, Verdicts
<1> QED BY <1>4 DEF WorkerOK, IdleWorker

LEMMA OneWorkerSteps ==
  ASSUME WorkersOK, NEW w \in Workers, NEW g, WorkerOK(g, accounts, now),
         worker' = [worker EXCEPT ![w] = g], UNCHANGED <<accounts, now>>
  PROVE  WorkersOK'
<1>1. g \in Worker
  BY DEF WorkerOK
<1>2. worker' \in [Workers -> Worker]
  BY <1>1 DEF WorkersOK
<1>3. ASSUME NEW v \in Workers
      PROVE  WorkerOK(worker'[v], accounts, now)
  <2>1. worker'[v] = IF v = w THEN g ELSE worker[v]
    BY DEF WorkersOK
  <2> QED BY <2>1 DEF WorkersOK
<1> QED BY <1>2, <1>3 DEF WorkersOK

\* A cause is no part of what a request holds.
LEMMA CausedIsOK ==
  ASSUME NEW acc, NEW t, NEW a, NEW f \in [Workers -> Worker],
         \A v \in Workers : WorkerOK(f[v], acc, t)
  PROVE  /\ Caused(a, f) \in [Workers -> Worker]
         /\ \A v \in Workers : WorkerOK(Caused(a, f)[v], acc, t)
<1>1. ASSUME NEW v \in Workers
      PROVE  /\ [f[v] EXCEPT !.cause = "yes"] \in Worker
             /\ WorkerOK([f[v] EXCEPT !.cause = "yes"], acc, t)
  <2> DEFINE g == [f[v] EXCEPT !.cause = "yes"]
  <2>1. f[v] \in Worker /\ WorkerOK(f[v], acc, t)
    OBVIOUS
  <2>2. /\ g \in Worker /\ g.since = f[v].since /\ g.pc = f[v].pc /\ g.copy = f[v].copy
        /\ g.agent = f[v].agent /\ g.card = f[v].card /\ g.policy = f[v].policy
        /\ g.verdict = f[v].verdict
    BY <2>1 DEF Worker
  <2> HIDE DEF g
  <2>3. WorkerOK(g, acc, t)
    BY <2>1, <2>2 DEF WorkerOK, VouchedFor
  <2> QED BY <2>2, <2>3 DEF g
<1>2. \A v \in Workers : Caused(a, f)[v] \in {f[v], [f[v] EXCEPT !.cause = "yes"]}
  BY DEF Caused
<1>3. Caused(a, f) = [v \in Workers |-> Caused(a, f)[v]]
  BY DEF Caused
<1> QED BY <1>1, <1>2, <1>3

LEMMA ManifestForIs ==
  ASSUME RestOK, NEW a \in Agents, NEW card \in Card, NEW d \in Deploys
  PROVE  /\ ManifestFor(a, card, d) \in Manifest
         /\ \A key : OfOnePiece(accounts, a,
              [card |-> card, manifest |-> ManifestFor(a, card, d), signing |-> key])
         /\ ManifestFor(a, card, d).card = card
         /\ ManifestFor(a, card, d).attested = (IF a \in accounts THEN "yes" ELSE "no")
<1>1. now + Validity \in Times
  BY TrustAssumption DEF RestOK, Times, Validity
<1>2. GuarantorKey[d] \in GKeys
  BY DEF GKeys
<1>3. Attested(a) \in {"no", "yes"}
  BY DEF Attested
<1>4. ManifestFor(a, card, d) \in Manifest
  BY <1>1, <1>2, <1>3 DEF ManifestFor, Dated, Manifest
<1>5. /\ ManifestFor(a, card, d).card = card
      /\ ManifestFor(a, card, d).attested = (IF a \in accounts THEN "yes" ELSE "no")
  BY DEF ManifestFor, Dated, Attested
<1> HIDE DEF ManifestFor
<1> QED BY <1>4, <1>5 DEF OfOnePiece

\* A whole record that is written keeps the table of one piece.
LEMMA RowWritten ==
  ASSUME RowsOK, NEW a \in Agents, NEW r \in Row \union {NoRow},
         r # NoRow => OfOnePiece(accounts, a, r),
         row' = [row EXCEPT ![a] = r], UNCHANGED accounts
  PROVE  RowsOK'
<1>1. row' \in [Agents -> Row \union {NoRow}]
  BY DEF RowsOK
<1>2. ASSUME NEW b \in Agents, row'[b] # NoRow
      PROVE  OfOnePiece(accounts, b, row'[b])
  <2>1. row'[b] = IF b = a THEN r ELSE row[b]
    BY DEF RowsOK
  <2> QED BY <1>2, <2>1 DEF RowsOK
<1> QED BY <1>1, <1>2 DEF RowsOK

LEMMA UpdatedIsOK ==
  ASSUME RowsOK, NEW a \in Agents, NEW r \in Row, OfOnePiece(accounts, a, r),
         row' = Updated(a, r), UNCHANGED accounts
  PROVE  RowsOK'
<1>1. CASE ~Exists(a)
  BY <1>1 DEF Updated, RowsOK
<1>2. CASE Exists(a)
  <2> DEFINE new == [row[a] EXCEPT !.card = r.card, !.manifest = r.manifest]
  <2>1. row[a] \in Row
    BY <1>2 DEF RowsOK, Exists
  <2>2. new \in Row /\ OfOnePiece(accounts, a, new)
    BY <2>1 DEF Row, OfOnePiece
  <2>3. row' = [row EXCEPT ![a] = new]
    BY <1>2, <2>1 DEF Updated, RowsOK, Row
  <2> HIDE DEF new
  <2> QED BY <2>2, <2>3, RowWritten
<1> QED BY <1>1, <1>2

LEMMA StartedIsOK ==
  ASSUME IInv, NEW a \in Agents, NEW pc \in {"create", "key", "refresh", "entry"},
         pc \in {"refresh", "entry"} => row[a] # NoRow
  PROVE  WorkerOK(Started(a, pc), accounts, now)
<1>1. row[a] \in Row \union {NoRow} /\ (row[a] # NoRow => OfOnePiece(accounts, a, row[a]))
  BY DEF IInv, RowsOK
<1>2. deployed \in Deploys /\ now \in 0..MaxTime /\ now \in Nat
  BY TrustAssumption DEF IInv, RestOK
<1>3. IdleWorker \in Worker
  BY IdleIsOK DEF WorkerOK
<1>4. row[a] \in Record \union {NoRow}
  BY <1>1 DEF Row, Record
<1>5. /\ Started(a, pc) \in Worker /\ Started(a, pc).pc = pc /\ Started(a, pc).agent = a
      /\ Started(a, pc).copy = row[a] /\ Started(a, pc).since = now
  BY <1>2, <1>3, <1>4 DEF Started, Worker, Record, PC
<1> HIDE DEF Started
<1> QED BY <1>1, <1>2, <1>4, <1>5 DEF WorkerOK

LEMMA JudgeIsOK ==
  ASSUME WorkersOK, NEW w \in Workers, NEW f \in Worker, NEW verdict \in Verdicts,
         NEW pc \in PC, now \in Nat, f.since <= now,
         verdict = "accepted" => WorkerOK([f EXCEPT !.pc = pc], accounts, now),
         Judge(w, f, verdict, pc), UNCHANGED <<accounts, now>>
  PROVE  WorkersOK'
<1>1. CASE verdict = "accepted"
  BY <1>1, OneWorkerSteps DEF Judge
<1>2. CASE verdict # "accepted"
  <2> DEFINE g == [f EXCEPT !.pc = "done", !.verdict = verdict, !.copy = NoRow, !.card = NoCard]
  <2>1. /\ g \in Worker /\ g.since = f.since /\ g.pc = "done" /\ g.verdict = verdict
    BY DEF Worker, PC
  <2>2. worker' = [worker EXCEPT ![w] = g]
    BY <1>2 DEF Judge
  <2> HIDE DEF g
  <2>3. WorkerOK(g, accounts, now)
    BY <1>2, <2>1 DEF WorkerOK
  <2> QED BY <2>2, <2>3, OneWorkerSteps
<1> QED BY <1>1, <1>2
-----------------------------------------------------------------------------
(* Each action keeps the invariant.                                         *)
LEMMA HeldIsTyped ==
  ASSUME IInv, NEW w \in Workers
  PROVE  /\ WorkerOK(worker[w], accounts, now) /\ worker[w] \in Worker
         /\ worker[w].agent \in Agents /\ worker[w].deploy \in Deploys
         /\ worker[w].since <= now /\ now \in Nat
<1>1. WorkerOK(worker[w], accounts, now) /\ worker[w] \in Worker
  BY DEF IInv, WorkersOK
<1>2. now \in Nat
  BY TrustAssumption DEF IInv, RestOK
<1> QED BY <1>1, <1>2 DEF WorkerOK, Worker

LEMMA RowIsOK ==
  ASSUME IInv, NEW a \in Agents, Exists(a)
  PROVE  row[a] \in Row /\ OfOnePiece(accounts, a, row[a])
BY DEF IInv, RowsOK, Exists

LEMMA EndKeeps ==
  ASSUME IInv, NEW w \in Workers, End(w), UNCHANGED <<accounts, now>>
  PROVE  WorkersOK'
<1>1. WorkerOK(IdleWorker, accounts, now)
  BY HeldIsTyped, IdleIsOK
<1> QED BY <1>1, OneWorkerSteps DEF IInv, End

LEMMA AgentReadKeeps ==
  ASSUME IInv, NEW w \in Workers, NEW a \in Agents, AgentRead(w, a)
  PROVE  IInv'
<1>1. WorkerOK(Started(a, IF Exists(a) THEN "key" ELSE "create"), accounts, now)
  BY StartedIsOK
<1>2. WorkersOK'
  BY <1>1, OneWorkerSteps DEF IInv, AgentRead
<1> QED BY <1>2 DEF IInv, AgentRead, RowsOK, RestOK

LEMMA AgentCreateKeeps ==
  ASSUME IInv, NEW w \in Workers, AgentCreate(w)
  PROVE  IInv'
<1> DEFINE a == worker[w].agent
           d == worker[w].deploy
<1>0. /\ WorkerOK(worker[w], accounts, now) /\ worker[w] \in Worker
      /\ a \in Agents /\ d \in Deploys /\ now \in Nat
  BY HeldIsTyped
<1>1. CASE Exists(a)
  <2> DEFINE g == [worker[w] EXCEPT !.pc = "again"]
  <2>1. g \in Worker /\ g.since = worker[w].since /\ g.pc = "again"
    BY <1>0 DEF Worker, PC
  <2>2. worker' = [worker EXCEPT ![w] = g]
    BY <1>1 DEF AgentCreate, Goto
  <2> HIDE DEF g
  <2>3. WorkerOK(g, accounts, now)
    BY <1>0, <2>1 DEF WorkerOK
  <2>4. WorkersOK'
    BY <2>2, <2>3, OneWorkerSteps DEF IInv, AgentCreate
  <2> QED BY <1>1, <2>4 DEF IInv, AgentCreate, RowsOK, RestOK
<1>2. CASE ~Exists(a)
  <2>1. PICK k \in Keys \ used :
          LET card == [template |-> d, key |-> k] IN
          /\ row' = [row EXCEPT ![a] =
                       [card |-> card, manifest |-> ManifestFor(a, card, d), signing |-> k]]
          /\ used' = used \union {k}
    BY <1>2 DEF AgentCreate
  <2> DEFINE card == [template |-> d, key |-> k]
             r == [card |-> card, manifest |-> ManifestFor(a, card, d), signing |-> k]
             f == [worker EXCEPT ![w] = IdleWorker]
  <2>2. card \in Card
    BY <1>0 DEF Card
  <2> HIDE DEF card, a, d
  <2>3. r \in Row /\ OfOnePiece(accounts, a, r)
    BY <1>0, <2>2, ManifestForIs DEF IInv, Row
  <2>4. row' = [row EXCEPT ![a] = r]
    BY <2>1 DEF card, a, d
  <2> HIDE DEF r
  <2>5. UNCHANGED <<accounts, deployed, cached, now, failures>> /\ worker' = Caused(a, f)
    BY <1>2 DEF AgentCreate, a
  <2>6. RowsOK'
    BY <1>0, <2>3, <2>4, <2>5, RowWritten DEF IInv
  <2>7. WorkerOK(IdleWorker, accounts, now) /\ IdleWorker \in Worker
    BY <1>0, IdleIsOK DEF WorkerOK
  <2>8. f \in [Workers -> Worker] /\ \A v \in Workers : WorkerOK(f[v], accounts, now)
    BY <2>7 DEF IInv, WorkersOK
  <2> HIDE DEF f
  <2>9. WorkersOK'
    BY <2>5, <2>8, CausedIsOK DEF WorkersOK
  <2>10. RestOK'
    BY <2>1, <2>5 DEF IInv, RestOK
  <2> QED BY <2>6, <2>9, <2>10 DEF IInv
<1> QED BY <1>1, <1>2

LEMMA AgentReadWinnerKeeps ==
  ASSUME IInv, NEW w \in Workers, AgentReadWinner(w)
  PROVE  IInv'
<1> DEFINE a == worker[w].agent
           g == IF Exists(a) THEN AfterRead(w, a, row[a]) ELSE IdleWorker
<1>0. /\ WorkerOK(worker[w], accounts, now) /\ worker[w] \in Worker
      /\ a \in Agents /\ now \in Nat
  BY HeldIsTyped
<1>1. WorkerOK(IdleWorker, accounts, now)
  BY <1>0, IdleIsOK
<1>2. ASSUME Exists(a)
      PROVE  WorkerOK([worker[w] EXCEPT !.pc = "key", !.copy = row[a]], accounts, now)
  <2> DEFINE h == [worker[w] EXCEPT !.pc = "key", !.copy = row[a]]
  <2>1. row[a] \in Record
    BY <1>0, <1>2, RowIsOK DEF Row, Record
  <2>2. h \in Worker /\ h.since = worker[w].since /\ h.pc = "key"
    BY <1>0, <2>1 DEF Worker, PC, Record
  <2> HIDE DEF h
  <2> QED BY <1>0, <2>2 DEF WorkerOK, h
<1>3. WorkerOK(g, accounts, now)
  BY <1>1, <1>2 DEF AfterRead
<1>4. worker' = [worker EXCEPT ![w] = g]
  BY DEF AgentReadWinner
<1> HIDE DEF g
<1>5. WorkersOK'
  BY <1>3, <1>4, OneWorkerSteps DEF IInv, AgentReadWinner
<1> QED BY <1>5 DEF IInv, AgentReadWinner, RowsOK, RestOK

LEMMA AgentReadKeyKeeps ==
  ASSUME IInv, NEW w \in Workers, AgentReadKey(w)
  PROVE  IInv'
<1> DEFINE a == worker[w].agent
           d == worker[w].deploy
           card == [template |-> d, key |-> row[a].signing]
           r == [card |-> card, manifest |-> ManifestFor(a, card, d), signing |-> row[a].signing]
           g == [worker[w] EXCEPT !.pc = "update", !.copy = r]
<1>0. /\ WorkerOK(worker[w], accounts, now) /\ worker[w] \in Worker
      /\ a \in Agents /\ d \in Deploys /\ now \in Nat
  BY HeldIsTyped
<1>1. CASE ~Exists(a)
  BY <1>1, EndKeeps DEF AgentReadKey, IInv, RowsOK, RestOK
<1>2. CASE Exists(a)
  <2>1. row[a].signing \in Keys
    BY <1>0, <1>2, RowIsOK DEF Row
  <2>2. card \in Card
    BY <1>0, <2>1 DEF Card
  <2>3. worker' = [worker EXCEPT ![w] = g]
    BY <1>2 DEF AgentReadKey
  <2> HIDE DEF card, a, d
  <2>4. r \in Row /\ OfOnePiece(accounts, a, r)
    BY <1>0, <2>1, <2>2, ManifestForIs DEF IInv, Row
  <2> HIDE DEF r
  <2>5. /\ g \in Worker /\ g.since = worker[w].since /\ g.pc = "update" /\ g.copy = r
        /\ g.agent = a
    BY <1>0, <2>4 DEF Worker, PC, Row, a
  <2> HIDE DEF g
  <2>6. WorkerOK(g, accounts, now)
    BY <1>0, <2>4, <2>5 DEF WorkerOK
  <2>7. WorkersOK'
    BY <2>3, <2>6, OneWorkerSteps DEF IInv, AgentReadKey
  <2> QED BY <2>7 DEF IInv, AgentReadKey, RowsOK, RestOK
<1> QED BY <1>1, <1>2

LEMMA AgentUpdateKeeps ==
  ASSUME IInv, NEW w \in Workers, AgentUpdate(w)
  PROVE  IInv'
<1> DEFINE a == worker[w].agent
           r == worker[w].copy
           f == [worker EXCEPT ![w] = IdleWorker]
<1>0. /\ WorkerOK(worker[w], accounts, now) /\ a \in Agents /\ now \in Nat
  BY HeldIsTyped
<1>1. r \in Row /\ OfOnePiece(accounts, a, r)
  BY <1>0 DEF WorkerOK, AgentUpdate
<1>2. row' = Updated(a, r) /\ worker' = Caused(a, f)
      /\ UNCHANGED <<accounts, deployed, cached, now, used, failures>>
  BY DEF AgentUpdate
<1>3. WorkerOK(IdleWorker, accounts, now) /\ IdleWorker \in Worker
  BY <1>0, IdleIsOK DEF WorkerOK
<1>4. f \in [Workers -> Worker] /\ \A v \in Workers : WorkerOK(f[v], accounts, now)
  BY <1>3 DEF IInv, WorkersOK
<1> HIDE DEF a, r, f
<1>5. RowsOK'
  BY <1>0, <1>1, <1>2, UpdatedIsOK DEF IInv
<1>6. WorkersOK'
  BY <1>2, <1>4, CausedIsOK DEF WorkersOK
<1> QED BY <1>2, <1>5, <1>6 DEF IInv, RestOK

LEMMA AgentDeleteKeeps ==
  ASSUME IInv, NEW a \in Agents, AgentDelete(a)
  PROVE  IInv'
<1>1. RowsOK'
  BY RowWritten DEF IInv, AgentDelete
<1>2. WorkersOK'
  BY CausedIsOK DEF IInv, AgentDelete, WorkersOK
<1> QED BY <1>1, <1>2 DEF IInv, AgentDelete, RestOK

LEMMA ResolveReadKeeps ==
  ASSUME IInv, NEW w \in Workers, NEW a \in Agents, ResolveRead(w, a)
  PROVE  IInv'
<1>1. WorkerOK(Started(a, IF IsCurrent(row[a]) THEN "entry" ELSE "refresh"), accounts, now)
  BY StartedIsOK DEF ResolveRead, Exists
<1>2. WorkersOK'
  BY <1>1, OneWorkerSteps DEF IInv, ResolveRead
<1> QED BY <1>2 DEF IInv, ResolveRead, RowsOK, RestOK

LEMMA RefreshedIsOK ==
  ASSUME IInv, NEW w \in Workers, worker[w].pc = "refresh"
  PROVE  Refreshed(w) \in Row /\ OfOnePiece(accounts, worker[w].agent, Refreshed(w))
<1> DEFINE a == worker[w].agent
           d == worker[w].deploy
           c == worker[w].copy
<1>0. WorkerOK(worker[w], accounts, now) /\ a \in Agents /\ d \in Deploys
  BY HeldIsTyped
<1>1. c \in Record
  BY <1>0 DEF WorkerOK
<1>2. Refreshed(w) = [c EXCEPT !.manifest = ManifestFor(a, c.card, d)]
  BY DEF Refreshed
<1> HIDE DEF a, d, c
<1>3. c.card \in Card
  BY <1>1 DEF Record
<1>4. /\ ManifestFor(a, c.card, d) \in Manifest /\ ManifestFor(a, c.card, d).card = c.card
      /\ ManifestFor(a, c.card, d).attested = (IF a \in accounts THEN "yes" ELSE "no")
  BY <1>0, <1>3, ManifestForIs DEF IInv
<1>5. Refreshed(w) \in Row /\ OfOnePiece(accounts, a, Refreshed(w))
  BY <1>1, <1>2, <1>4 DEF Row, Record, OfOnePiece
<1> QED BY <1>5 DEF a

LEMMA CatalogRefreshKeeps ==
  ASSUME IInv, NEW w \in Workers, CatalogRefresh(w)
  PROVE  IInv'
<1> DEFINE a == worker[w].agent
           r == Refreshed(w)
           g == [worker[w] EXCEPT !.pc = "entry", !.copy = r]
           f == [worker EXCEPT ![w] = g]
<1>0. /\ WorkerOK(worker[w], accounts, now) /\ worker[w] \in Worker
      /\ a \in Agents /\ now \in Nat
  BY HeldIsTyped
<1>1. r \in Row /\ OfOnePiece(accounts, a, r)
  BY RefreshedIsOK DEF CatalogRefresh
<1>2. row' = Updated(a, r) \/ UNCHANGED row
  BY DEF CatalogRefresh
<1>3. worker' = f \/ worker' = Caused(a, f)
  BY DEF CatalogRefresh
<1>4. failures' = failures \/ (failures < MaxFailures /\ failures' = failures + 1)
  BY DEF CatalogRefresh, Fail
<1>5. UNCHANGED <<accounts, deployed, cached, now, used>>
  BY DEF CatalogRefresh
<1> HIDE DEF a, r
<1>6. r \in Record
  BY <1>1 DEF Row, Record
<1>7. /\ g \in Worker /\ g.since = worker[w].since /\ g.pc = "entry" /\ g.copy = r
      /\ g.agent = a
  BY <1>0, <1>6 DEF Worker, PC, Record, a
<1> HIDE DEF g
<1>8. WorkerOK(g, accounts, now)
  BY <1>0, <1>1, <1>6, <1>7 DEF WorkerOK
<1>9. f \in [Workers -> Worker] /\ \A v \in Workers : WorkerOK(f[v], accounts, now)
  BY <1>7, <1>8 DEF IInv, WorkersOK
<1> HIDE DEF f
<1>10. WorkersOK'
  BY <1>3, <1>5, <1>9, CausedIsOK DEF WorkersOK
<1>11. RowsOK'
  <2>1. CASE row' = Updated(a, r)
    BY <1>0, <1>1, <1>5, <2>1, UpdatedIsOK DEF IInv
  <2>2. CASE UNCHANGED row
    BY <1>5, <2>2 DEF IInv, RowsOK
  <2> QED BY <1>2, <2>1, <2>2
<1>12. RestOK'
  BY <1>4, <1>5, TrustAssumption DEF IInv, RestOK
<1> QED BY <1>10, <1>11, <1>12 DEF IInv

LEMMA CatalogRefreshFailsKeeps ==
  ASSUME IInv, NEW w \in Workers, CatalogRefreshFails(w)
  PROVE  IInv'
<1> DEFINE c == [worker[w].copy EXCEPT !.manifest = NoManifest]
           g == [worker[w] EXCEPT !.pc = "entry", !.copy = c, !.cause = "yes"]
<1>0. WorkerOK(worker[w], accounts, now) /\ worker[w] \in Worker /\ now \in Nat
  BY HeldIsTyped
<1>1. worker[w].copy \in Record
  BY <1>0 DEF WorkerOK, CatalogRefreshFails
<1>2. c \in Record /\ c.manifest = NoManifest
  BY <1>1 DEF Record
<1>3. worker' = [worker EXCEPT ![w] = g]
  BY DEF CatalogRefreshFails
<1>4. /\ failures < MaxFailures /\ failures' = failures + 1
      /\ UNCHANGED <<accounts, row, deployed, cached, now, used>>
  BY DEF CatalogRefreshFails, Fail
<1> HIDE DEF c
<1>5. g \in Worker /\ g.since = worker[w].since /\ g.pc = "entry" /\ g.copy = c
  BY <1>0, <1>2 DEF Worker, PC, Record
<1> HIDE DEF g
<1>6. WorkerOK(g, accounts, now)
  BY <1>0, <1>2, <1>5 DEF WorkerOK
<1>7. WorkersOK'
  BY <1>3, <1>4, <1>6, OneWorkerSteps DEF IInv
<1> QED BY <1>4, <1>7, TrustAssumption DEF IInv, RowsOK, RestOK

LEMMA ResolveEntryKeeps ==
  ASSUME IInv, NEW w \in Workers, NEW policy \in Policies, ResolveEntry(w, policy)
  PROVE  IInv'
<1> DEFINE m == worker[w].copy.manifest
           f == [worker[w] EXCEPT !.policy = policy]
           v1 == CatalogVerdict("valid", policy)
           v2 == EntryVerdict(m, "api", policy, KeysAt(m, policy), now)
           verdict == FirstRefusal(<<v1, v2>>)
           g == [f EXCEPT !.pc = "card"]
<1>0. /\ WorkerOK(worker[w], accounts, now) /\ worker[w] \in Worker
      /\ worker[w].since <= now /\ now \in Nat
  BY HeldIsTyped
<1>1. worker[w].pc = "entry" /\ Judge(w, f, verdict, "card")
  BY DEF ResolveEntry
<1>2. /\ cached' = KeysAt(m, policy)
      /\ UNCHANGED <<accounts, row, deployed, now, used, failures>>
  BY DEF ResolveEntry
<1>3. v1 \in Verdicts /\ v2 \in Verdicts
  BY CatalogVerdictIs, EntryVerdictIs
<1>4. v2 = "accepted" => m # NoManifest /\ (Guaranteed(policy) => ~(m.expires <= now))
  BY EntryVerdictIs
<1> HIDE DEF v1, v2
<1>5. verdict \in Verdicts /\ (verdict = "accepted" => v2 = "accepted")
  BY <1>3, TwoVerdicts
<1> HIDE DEF verdict
<1>6. worker[w].copy \in Record /\ (m # NoManifest => OfOnePiece(accounts, worker[w].agent, worker[w].copy))
  BY <1>0, <1>1 DEF WorkerOK
<1>7. m # NoManifest => m.expires \in Int
  BY <1>6, TrustAssumption DEF Record, Manifest, Times, Validity
<1>8. f \in Worker /\ f.since = worker[w].since
  BY <1>0 DEF Worker
<1>9. /\ g \in Worker /\ g.since = worker[w].since /\ g.pc = "card" /\ g.policy = policy
      /\ g.copy = worker[w].copy /\ g.agent = worker[w].agent
  BY <1>0 DEF Worker, PC
<1>10. worker[w].since \in Int
  BY <1>0, TrustAssumption DEF Worker
<1>11. "card" \in PC
  BY DEF PC
<1>12. verdict = "accepted" => WorkerOK(g, accounts, now)
  <2> HIDE DEF g
  <2>1. ASSUME verdict = "accepted"
        PROVE  WorkerOK(g, accounts, now)
    <3>1. m # NoManifest /\ (Guaranteed(policy) => m.expires > worker[w].since)
      BY <1>0, <1>4, <1>5, <1>7, <1>10, <2>1
    <3> QED BY <1>0, <1>6, <1>9, <3>1 DEF WorkerOK
  <2> QED BY <2>1
<1> HIDE DEF f
<1>13. WorkersOK'
  BY <1>0, <1>1, <1>2, <1>5, <1>8, <1>11, <1>12, JudgeIsOK DEF IInv
<1>14. cached' \subseteq GKeys \union {NextKey}
  BY <1>2 DEF KeysAt, Published, GKeys, IInv, RestOK
<1> QED BY <1>2, <1>13, <1>14 DEF IInv, RowsOK, RestOK

LEMMA ResolveCardKeeps ==
  ASSUME IInv, NEW w \in Workers, ResolveCard(w)
  PROVE  IInv'
<1> DEFINE card == row[worker[w].agent].card
           m == worker[w].copy.manifest
           f == [worker[w] EXCEPT !.card = card]
           v == DigestVerdict(m, card)
           verdict == IF card = NoCard THEN "invalid_peer_card" ELSE v
           g == [f EXCEPT !.pc = "jwks"]
<1>0. /\ WorkerOK(worker[w], accounts, now) /\ worker[w] \in Worker
      /\ worker[w].agent \in Agents /\ worker[w].since <= now /\ now \in Nat
  BY HeldIsTyped
<1>1. worker[w].pc = "card" /\ Judge(w, f, verdict, "jwks")
  BY DEF ResolveCard
<1>2. UNCHANGED <<accounts, row, deployed, cached, now, used, failures>>
  BY DEF ResolveCard
<1>3. card \in Card \union {NoCard}
  BY <1>0 DEF IInv, RowsOK, Row, NoRow
<1>4. v \in Verdicts /\ (v = "accepted" => m.card = card)
  BY DigestVerdictIs
<1> HIDE DEF v
<1>5. verdict \in Verdicts /\ (verdict = "accepted" => m.card = card)
  BY <1>4 DEF Verdicts
<1> HIDE DEF verdict, card
<1>6. f \in Worker /\ f.since = worker[w].since
  BY <1>0, <1>3 DEF Worker
<1>7. /\ g \in Worker /\ g.since = worker[w].since /\ g.pc = "jwks" /\ g.card = card
      /\ g.policy = worker[w].policy /\ g.copy = worker[w].copy /\ g.agent = worker[w].agent
  BY <1>0, <1>3 DEF Worker, PC
<1>8. "jwks" \in PC
  BY DEF PC
<1>9. verdict = "accepted" => WorkerOK(g, accounts, now)
  <2> HIDE DEF g
  <2> QED BY <1>0, <1>1, <1>5, <1>7 DEF WorkerOK
<1> HIDE DEF f
<1>10. WorkersOK'
  BY <1>0, <1>1, <1>2, <1>5, <1>6, <1>8, <1>9, JudgeIsOK DEF IInv
<1> QED BY <1>2, <1>10 DEF IInv, RowsOK, RestOK

LEMMA ResolveKeysKeeps ==
  ASSUME IInv, NEW w \in Workers, ResolveKeys(w)
  PROVE  IInv'
<1> DEFINE a == worker[w].agent
           f == worker[w]
           v == KeyVerdict(f.copy.manifest, f.card, row[a].card.key, f.policy)
           verdict == IF Exists(a) THEN v ELSE "keys_unavailable"
           g == [f EXCEPT !.pc = "done"]
<1>0. /\ WorkerOK(f, accounts, now) /\ f \in Worker /\ f.since <= now /\ now \in Nat
  BY HeldIsTyped
<1>1. f.pc = "jwks" /\ Judge(w, f, verdict, "done")
  BY DEF ResolveKeys
<1>2. UNCHANGED <<accounts, row, deployed, cached, now, used, failures>>
  BY DEF ResolveKeys
<1>3. /\ v \in Verdicts
      /\ v = "accepted" => ~(Level[f.policy] = 2 /\ f.copy.manifest.attested = "no")
  BY KeyVerdictIs
<1> HIDE DEF v
<1>4. /\ verdict \in Verdicts
      /\ verdict = "accepted" => ~(Level[f.policy] = 2 /\ f.copy.manifest.attested = "no")
  BY <1>3 DEF Verdicts
<1> HIDE DEF verdict
<1>5. /\ g \in Worker /\ g.since = f.since /\ g.pc = "done" /\ g.card = f.card
      /\ g.policy = f.policy /\ g.copy = f.copy /\ g.agent = f.agent
  BY <1>0 DEF Worker, PC
<1>6. "done" \in PC
  BY DEF PC
<1>7. verdict = "accepted" => WorkerOK(g, accounts, now)
  <2> HIDE DEF g, f
  <2>1. ASSUME verdict = "accepted"
        PROVE  VouchedFor(g, accounts)
    <3>1. /\ OfOnePiece(accounts, f.agent, f.copy) /\ f.copy.manifest.card = f.card
          /\ Guaranteed(f.policy) => f.copy.manifest.expires > f.since
      BY <1>0, <1>1 DEF WorkerOK
    <3>2. Level[f.policy] = 2 => f.agent \in accounts
      BY <1>4, <2>1, <3>1 DEF OfOnePiece
    <3> QED BY <1>5, <3>1, <3>2 DEF VouchedFor
  <2> QED BY <1>0, <1>5, <2>1 DEF WorkerOK
<1> HIDE DEF f
<1>8. WorkersOK'
  BY <1>0, <1>1, <1>2, <1>4, <1>6, <1>7, JudgeIsOK DEF IInv
<1> QED BY <1>2, <1>8 DEF IInv, RowsOK, RestOK

LEMMA TickKeeps ==
  ASSUME IInv, Tick
  PROVE  IInv'
<1>1. now \in Nat /\ now' = now + 1 /\ now' \in 0..MaxTime
  BY TrustAssumption DEF IInv, RestOK, Tick
<1>2. UNCHANGED <<accounts, row, deployed, cached, worker, used, failures>>
  BY DEF Tick
<1>3. ASSUME NEW w \in Workers
      PROVE  WorkerOK(worker[w], accounts, now + 1)
  <2>1. WorkerOK(worker[w], accounts, now) /\ worker[w].since \in Int
    BY TrustAssumption DEF IInv, WorkersOK, Worker
  <2> QED BY <1>1, <2>1 DEF WorkerOK
<1>4. WorkersOK'
  BY <1>1, <1>2, <1>3 DEF IInv, WorkersOK
<1> QED BY <1>1, <1>2, <1>4 DEF IInv, RowsOK, RestOK
-----------------------------------------------------------------------------
LEMMA InitHolds == Init => IInv
<1> SUFFICES ASSUME Init
             PROVE  IInv
  OBVIOUS
<1>1. RowsOK
  BY DEF Init, RowsOK
<1>2. WorkersOK
  <2>1. WorkerOK(IdleWorker, accounts, 0) /\ IdleWorker \in Worker
    BY IdleIsOK DEF WorkerOK
  <2> QED BY <2>1 DEF Init, WorkersOK
<1>3. RestOK
  BY TrustAssumption DEF Init, RestOK, Deploys
<1> QED BY <1>1, <1>2, <1>3 DEF IInv

LEMMA NextKeeps == IInv /\ [Next]_vars => IInv'
<1> SUFFICES ASSUME IInv, [Next]_vars
             PROVE  IInv'
  OBVIOUS
<1>1. ASSUME NEW w \in Workers, NEW a \in Agents, AgentRead(w, a) \/ ResolveRead(w, a)
      PROVE  IInv'
  BY <1>1, AgentReadKeeps, ResolveReadKeeps
<1>2. ASSUME NEW w \in Workers,
             AgentCreate(w) \/ AgentReadWinner(w) \/ AgentReadKey(w) \/ AgentUpdate(w)
      PROVE  IInv'
  BY <1>2, AgentCreateKeeps, AgentReadWinnerKeeps, AgentReadKeyKeeps, AgentUpdateKeeps
<1>3. ASSUME NEW w \in Workers, CatalogRefresh(w) \/ CatalogRefreshFails(w)
      PROVE  IInv'
  BY <1>3, CatalogRefreshKeeps, CatalogRefreshFailsKeeps
<1>4. ASSUME NEW w \in Workers,
             ResolveCard(w) \/ ResolveKeys(w) \/ \E policy \in Policies : ResolveEntry(w, policy)
      PROVE  IInv'
  BY <1>4, ResolveCardKeeps, ResolveKeysKeeps, ResolveEntryKeeps
<1>5. ASSUME NEW w \in Workers, ResolveEnds(w)
      PROVE  IInv'
  BY <1>5, EndKeeps DEF ResolveEnds, IInv, RowsOK, RestOK
<1>6. ASSUME NEW w \in Workers, EndsEarly(w)
      PROVE  IInv'
  <2>1. WorkersOK'
    BY <1>6, EndKeeps DEF EndsEarly
  <2> QED BY <1>6, <2>1, TrustAssumption DEF EndsEarly, Fail, IInv, RowsOK, RestOK
<1>7. CASE \E a \in Agents : AgentDelete(a)
  BY <1>7, AgentDeleteKeeps
<1>8. CASE Deploy
  BY <1>8, TrustAssumption DEF Deploy, IInv, RowsOK, WorkersOK, RestOK, Deploys
<1>9. CASE CacheExpires
  BY <1>9 DEF CacheExpires, IInv, RowsOK, WorkersOK, RestOK
<1>10. CASE Tick
  BY <1>10, TickKeeps
<1>11. CASE UNCHANGED vars
  BY <1>11 DEF vars, IInv, RowsOK, WorkersOK, RestOK
<1> QED
  BY <1>1, <1>2, <1>3, <1>4, <1>5, <1>6, <1>7, <1>8, <1>9, <1>10, <1>11 DEF Next

\* Requests at a resolve hold whole records, whatever rows they met.
THEOREM InvariantHolds == Spec => []IInv
BY InitHolds, NextKeeps, PTL DEF Spec

\* The state has its type: the table never has half a record, an update never
\* makes a row of its own, and a request holds nothing but records and verdicts.
THEOREM TypeCorrect == Spec => []TypeOK
<1>1. IInv => TypeOK
  BY DEF IInv, RowsOK, WorkersOK, RestOK, TypeOK
<1> QED BY <1>1, InvariantHolds, PTL

\* A stored manifest is about the card beside it, although a catalog read writes
\* a whole record back that others may have replaced or deleted since it read it.
THEOREM RecordsStayWhole == Spec => []RecordsAreOfOnePiece
<1>1. IInv => RecordsAreOfOnePiece
  BY DEF IInv, RowsOK, RecordsAreOfOnePiece, OfOnePiece, Exists, Attested
<1> QED BY <1>1, InvariantHolds, PTL

\* What a resolve accepts was vouched for as a whole, for any interleaving of
\* its three reads with the writers of the row, deployments and failures.
THEOREM AcceptanceIsSound == Spec => []AcceptedIsVouchedFor
<1>1. IInv => AcceptedIsVouchedFor
  BY DEF IInv, WorkersOK, WorkerOK, VouchedFor, AcceptedIsVouchedFor
<1> QED BY <1>1, InvariantHolds, PTL
-----------------------------------------------------------------------------
(* Why a resolve refuses.  Every manifest is signed by a guarantor's key of *)
(* some deployment, the first one's until there is another; a resolve that  *)
(* nothing has disturbed holds the card of the row and, until it has        *)
(* checked it, a manifest that outlives the request.                        *)
Issued(m, d) ==
  m.url = "api" /\ m.by = "guarantor" /\ (d = 1 => m.key = GuarantorKey[1])

Undisturbed(f, rows) ==
  /\ rows[f.agent] # NoRow /\ rows[f.agent].card = f.copy.card
  /\ f.pc = "entry" => f.copy.manifest # NoManifest
  /\ f.pc = "entry" => f.copy.manifest.expires > f.since + 1

Excused(f, acc, d) ==
  \/ f.cause = "yes"
  \/ f.verdict = "manifest_signature_invalid" /\ d > 1
  \/ f.verdict = "attestation_missing" /\ f.agent \notin acc

AtAResolve(f) == f.pc \in {"refresh", "entry", "card", "jwks"}

Justified(f, acc, rows, d, t) ==
  /\ d = 1 => f.deploy = 1
  /\ f.pc \in {"update", "entry", "card", "jwks"} /\ f.copy.manifest # NoManifest
       => Issued(f.copy.manifest, d)
  /\ f.pc # "idle" => f.since <= t
  /\ f.pc # "idle" => t <= f.since + 1
  /\ AtAResolve(f) /\ f.cause # "yes" => Undisturbed(f, rows)
  /\ f.pc # "done" => f.verdict = "accepted"
  /\ f.pc = "done" /\ f.verdict # "accepted" => Excused(f, acc, d)

RowsIssued == \A a \in Agents : row[a] # NoRow => Issued(row[a].manifest, deployed)
AllJustified == \A w \in Workers : Justified(worker[w], accounts, row, deployed, now)
CacheIssued == deployed = 1 => cached \in {{}, Published(1)}
CInv == IInv /\ RowsIssued /\ AllJustified /\ CacheIssued

LEMMA IdleIsJustified ==
  ASSUME NEW acc, NEW rows, NEW d, NEW t
  PROVE  Justified(IdleWorker, acc, rows, d, t)
BY DEF Justified, IdleWorker, AtAResolve

LEMMA Numbers ==
  ASSUME IInv
  PROVE  /\ deployed \in Nat /\ deployed > 0 /\ now \in Nat
         /\ \A w \in Workers : worker[w].since \in Nat
BY TrustAssumption DEF IInv, RestOK, WorkersOK, Worker, Deploys

\* A step of one worker that writes no row.
LEMMA OneWorkerJustified ==
  ASSUME CInv, NEW w \in Workers, NEW g, Justified(g, accounts, row, deployed, now),
         worker' = [worker EXCEPT ![w] = g], UNCHANGED <<accounts, row, deployed, now>>
  PROVE  RowsIssued' /\ AllJustified'
<1>1. RowsIssued'
  BY DEF CInv, RowsIssued
<1>2. ASSUME NEW v \in Workers
      PROVE  Justified(worker'[v], accounts, row, deployed, now)
  <2>1. worker'[v] = IF v = w THEN g ELSE worker[v]
    BY DEF CInv, IInv, WorkersOK
  <2> QED BY <2>1 DEF CInv, AllJustified
<1>3. AllJustified'
  BY <1>2 DEF AllJustified
<1> QED BY <1>1, <1>3

LEMMA JudgedIsJustified ==
  ASSUME CInv, NEW w \in Workers, NEW f \in Worker, NEW verdict, NEW pc,
         f.deploy = worker[w].deploy, f.since = worker[w].since, worker[w].pc # "idle",
         verdict = "accepted" => Justified([f EXCEPT !.pc = pc], accounts, row, deployed, now),
         verdict # "accepted" =>
           \/ f.cause = "yes"
           \/ verdict = "manifest_signature_invalid" /\ deployed > 1
           \/ verdict = "attestation_missing" /\ f.agent \notin accounts,
         Judge(w, f, verdict, pc), UNCHANGED <<accounts, row, deployed, now>>
  PROVE  RowsIssued' /\ AllJustified'
<1>1. CASE verdict = "accepted"
  BY <1>1, OneWorkerJustified DEF Judge
<1>2. CASE verdict # "accepted"
  <2> DEFINE g == [f EXCEPT !.pc = "done", !.verdict = verdict, !.copy = NoRow, !.card = NoCard]
  <2>1. /\ g.since = f.since /\ g.pc = "done" /\ g.verdict = verdict /\ g.deploy = f.deploy
        /\ g.cause = f.cause /\ g.agent = f.agent
    BY DEF Worker
  <2>2. worker' = [worker EXCEPT ![w] = g]
    BY <1>2 DEF Judge
  <2> HIDE DEF g
  <2>3. Justified(worker[w], accounts, row, deployed, now)
    BY DEF CInv, AllJustified
  <2>4. Justified(g, accounts, row, deployed, now)
    BY <1>2, <2>1, <2>3 DEF Justified, Excused, AtAResolve
  <2> QED BY <2>2, <2>4, OneWorkerJustified
<1> QED BY <1>1, <1>2

\* A row that is written is a cause for whoever resolves its agent.
LEMMA CausedIsJustified ==
  ASSUME CInv, NEW a \in Agents, NEW f \in [Workers -> Worker], NEW rows, NEW acc, NEW d, NEW t,
         \A v \in Workers : Justified(f[v], acc, row, d, t),
         \A v \in Workers : AtAResolve(f[v]) => Resolving(v) /\ f[v].agent = worker[v].agent,
         \A b \in Agents : b # a => rows[b] = row[b]
  PROVE  \A v \in Workers : Justified(Caused(a, f)[v], acc, rows, d, t)
<1> SUFFICES ASSUME NEW v \in Workers
             PROVE  Justified(Caused(a, f)[v], acc, rows, d, t)
  OBVIOUS
<1>0. f[v] \in Worker /\ f[v].agent \in Agents /\ Justified(f[v], acc, row, d, t)
  BY DEF Worker
<1>1. CASE Resolving(v) /\ worker[v].agent = a
  <2> DEFINE g == [f[v] EXCEPT !.cause = "yes"]
  <2>1. Caused(a, f)[v] = g
    BY <1>1 DEF Caused
  <2>2. /\ g.since = f[v].since /\ g.pc = f[v].pc /\ g.copy = f[v].copy /\ g.cause = "yes"
        /\ g.agent = f[v].agent /\ g.verdict = f[v].verdict /\ g.deploy = f[v].deploy
    BY <1>0 DEF Worker
  <2> HIDE DEF g
  <2>3. Justified(g, acc, rows, d, t)
    BY <1>0, <2>2 DEF Justified, Excused, AtAResolve
  <2> QED BY <2>1, <2>3
<1>2. CASE ~(Resolving(v) /\ worker[v].agent = a)
  <2>1. Caused(a, f)[v] = f[v]
    BY <1>2 DEF Caused
  <2>2. AtAResolve(f[v]) => rows[f[v].agent] = row[f[v].agent]
    BY <1>0, <1>2
  <2>3. Justified(f[v], acc, rows, d, t)
    BY <1>0, <2>2 DEF Justified, Undisturbed
  <2> QED BY <2>1, <2>3
<1> QED BY <1>1, <1>2

LEMMA ManifestIsIssued ==
  ASSUME NEW a, NEW card, NEW d, NEW n, n = 1 => d = 1
  PROVE  Issued(ManifestFor(a, card, d), n) /\ ManifestFor(a, card, d).expires = now + Validity
BY DEF Issued, ManifestFor, Dated

LEMMA RowsAreIssued ==
  ASSUME CInv, NEW a \in Agents, NEW r, row' = [row EXCEPT ![a] = r] \/ row' = Updated(a, r),
         r # NoRow => Issued(r.manifest, deployed), r # NoRow \/ row' = [row EXCEPT ![a] = r],
         UNCHANGED deployed
  PROVE  RowsIssued' /\ \A b \in Agents : b # a => row'[b] = row[b]
<1>0. row \in [Agents -> Row \union {NoRow}]
  BY DEF CInv, IInv, RowsOK
<1>1. \A b \in Agents : b # a => row'[b] = row[b]
  BY <1>0 DEF Updated
<1>2. CASE row' = [row EXCEPT ![a] = r]
  BY <1>0, <1>2 DEF CInv, RowsIssued
<1>3. CASE row' = Updated(a, r) /\ r # NoRow
  <2>1. CASE ~Exists(a)
    BY <1>3, <2>1 DEF Updated, CInv, RowsIssued
  <2>2. CASE Exists(a)
    <3>1. row[a] \in Row
      BY <1>0, <2>2 DEF Exists
    <3>2. row'[a].manifest = r.manifest
      BY <1>0, <1>3, <2>2, <3>1 DEF Updated, Row
    <3> QED BY <1>1, <1>3, <3>2 DEF CInv, RowsIssued
  <2> QED BY <2>1, <2>2
<1> QED BY <1>1, <1>2, <1>3
-----------------------------------------------------------------------------
LEMMA EndJustified ==
  ASSUME CInv, NEW w \in Workers, End(w), UNCHANGED <<accounts, row, deployed, cached, now>>
  PROVE  RowsIssued' /\ AllJustified' /\ CacheIssued'
<1>1. RowsIssued' /\ AllJustified'
  BY IdleIsJustified, OneWorkerJustified DEF End
<1> QED BY <1>1 DEF CInv, CacheIssued

LEMMA StartedJustified ==
  ASSUME CInv, NEW a \in Agents, NEW pc \in {"create", "key", "refresh", "entry"},
         pc \in {"refresh", "entry"} => row[a] # NoRow,
         pc = "entry" => IsCurrent(row[a])
  PROVE  Justified(Started(a, pc), accounts, row, deployed, now)
<1>1. IdleWorker \in Worker
  BY IdleIsOK, Numbers DEF WorkerOK, CInv
<1>2. /\ Started(a, pc).pc = pc /\ Started(a, pc).agent = a /\ Started(a, pc).deploy = deployed
      /\ Started(a, pc).verdict = "accepted" /\ Started(a, pc).copy = row[a] /\ Started(a, pc).since = now
  BY <1>1 DEF Started, Worker, IdleWorker
<1> HIDE DEF Started
<1>3. now \in Nat /\ deployed \in Nat
  BY Numbers DEF CInv
<1>4. pc = "entry" => row[a].manifest # NoManifest /\ row[a].manifest.expires > now + 1
  BY DEF IsCurrent, RefreshMargin
<1>5. row[a] # NoRow => Issued(row[a].manifest, deployed)
  BY DEF CInv, RowsIssued
<1> QED BY <1>2, <1>3, <1>4, <1>5 DEF Justified, Undisturbed, AtAResolve

LEMMA ReadsJustified ==
  ASSUME CInv, NEW w \in Workers, NEW a \in Agents, AgentRead(w, a) \/ ResolveRead(w, a)
  PROVE  RowsIssued' /\ AllJustified' /\ CacheIssued'
<1>1. CASE AgentRead(w, a)
  <2>1. Justified(Started(a, IF Exists(a) THEN "key" ELSE "create"), accounts, row, deployed, now)
    BY StartedJustified
  <2> QED BY <1>1, <2>1, OneWorkerJustified DEF AgentRead, CInv, CacheIssued
<1>2. CASE ResolveRead(w, a)
  <2>1. Justified(Started(a, IF IsCurrent(row[a]) THEN "entry" ELSE "refresh"),
                  accounts, row, deployed, now)
    BY <1>2, StartedJustified DEF ResolveRead, Exists
  <2> QED BY <1>2, <2>1, OneWorkerJustified DEF ResolveRead, CInv, CacheIssued
<1> QED BY <1>1, <1>2

LEMMA AgentCreateJustified ==
  ASSUME CInv, NEW w \in Workers, AgentCreate(w)
  PROVE  RowsIssued' /\ AllJustified' /\ CacheIssued'
<1> DEFINE a == worker[w].agent
           d == worker[w].deploy
           f == [worker EXCEPT ![w] = IdleWorker]
<1>0. /\ worker[w] \in Worker /\ a \in Agents /\ d \in Deploys /\ now \in Nat
      /\ Justified(worker[w], accounts, row, deployed, now)
  BY HeldIsTyped DEF CInv, AllJustified
<1>1. CASE Exists(a)
  <2> DEFINE g == [worker[w] EXCEPT !.pc = "again"]
  <2>1. /\ g.pc = "again" /\ g.deploy = worker[w].deploy /\ g.verdict = worker[w].verdict /\ g.since = worker[w].since
    BY <1>0 DEF Worker
  <2>2. /\ worker' = [worker EXCEPT ![w] = g] /\ worker[w].pc = "create"
        /\ UNCHANGED <<accounts, row, deployed, cached, now>>
    BY <1>1 DEF AgentCreate, Goto
  <2> HIDE DEF g
  <2>3. Justified(g, accounts, row, deployed, now)
    BY <1>0, <2>1, <2>2 DEF Justified, AtAResolve
  <2> QED BY <2>2, <2>3, OneWorkerJustified DEF CInv, CacheIssued
<1>2. CASE ~Exists(a)
  <2>1. PICK k \in Keys :
          row' = [row EXCEPT ![a] = [card |-> [template |-> d, key |-> k],
                   manifest |-> ManifestFor(a, [template |-> d, key |-> k], d), signing |-> k]]
    BY <1>2 DEF AgentCreate
  <2>2. worker' = Caused(a, f) /\ UNCHANGED <<accounts, deployed, cached, now>>
    BY <1>2 DEF AgentCreate
  <2> DEFINE r == [card |-> [template |-> d, key |-> k],
                   manifest |-> ManifestFor(a, [template |-> d, key |-> k], d), signing |-> k]
  <2>3. r.manifest = ManifestFor(a, [template |-> d, key |-> k], d)
    OBVIOUS
  <2>4. row' = [row EXCEPT ![a] = r]
    BY <2>1
  <2> HIDE DEF r
  <2>5. Issued(r.manifest, deployed)
    BY <1>0, <2>3, ManifestIsIssued DEF Justified
  <2>6. RowsIssued' /\ \A b \in Agents : b # a => row'[b] = row[b]
    <3> HIDE DEF a
    <3> QED BY <1>0, <2>2, <2>4, <2>5, RowsAreIssued
  <2>7. IdleWorker \in Worker /\ ~AtAResolve(IdleWorker)
    BY <1>0, IdleIsOK DEF WorkerOK, AtAResolve, IdleWorker
  <2>8. /\ f \in [Workers -> Worker]
        /\ \A v \in Workers : f[v] = IF v = w THEN IdleWorker ELSE worker[v]
    BY <2>7 DEF CInv, IInv, WorkersOK
  <2> HIDE DEF f, a
  <2>9. \A v \in Workers : Justified(f[v], accounts, row, deployed, now)
    BY <2>8, IdleIsJustified DEF CInv, AllJustified
  <2>10. \A v \in Workers : AtAResolve(f[v]) => Resolving(v) /\ f[v].agent = worker[v].agent
    BY <2>7, <2>8 DEF AtAResolve, Resolving
  <2>11. \A v \in Workers : Justified(Caused(a, f)[v], accounts, row', deployed, now)
    BY <1>0, <2>6, <2>8, <2>9, <2>10, CausedIsJustified
  <2>12. AllJustified'
    BY <2>2, <2>11 DEF AllJustified
  <2> QED BY <2>2, <2>6, <2>12 DEF CInv, CacheIssued
<1> QED BY <1>1, <1>2
LEMMA AgentReadWinnerJustified ==
  ASSUME CInv, NEW w \in Workers, AgentReadWinner(w)
  PROVE  RowsIssued' /\ AllJustified' /\ CacheIssued'
<1> DEFINE a == worker[w].agent
           g == IF Exists(a) THEN AfterRead(w, a, row[a]) ELSE IdleWorker
<1>0. /\ worker[w] \in Worker /\ worker[w].pc = "again"
      /\ Justified(worker[w], accounts, row, deployed, now)
  BY HeldIsTyped DEF CInv, AllJustified, AgentReadWinner
<1>1. /\ worker' = [worker EXCEPT ![w] = g]
      /\ UNCHANGED <<accounts, row, deployed, cached, now>>
  BY DEF AgentReadWinner
<1>2. \/ g = IdleWorker
      \/ g.pc = "key" /\ g.deploy = worker[w].deploy /\ g.verdict = worker[w].verdict /\ g.since = worker[w].since
  BY <1>0 DEF AfterRead, Worker
<1> HIDE DEF g
<1>3. Justified(g, accounts, row, deployed, now)
  BY <1>0, <1>2, IdleIsJustified DEF Justified, AtAResolve
<1> QED BY <1>1, <1>3, OneWorkerJustified DEF CInv, CacheIssued

LEMMA AgentReadKeyJustified ==
  ASSUME CInv, NEW w \in Workers, AgentReadKey(w)
  PROVE  RowsIssued' /\ AllJustified' /\ CacheIssued'
<1> DEFINE a == worker[w].agent
           d == worker[w].deploy
           card == [template |-> d, key |-> row[a].signing]
           m == ManifestFor(a, card, d)
           c == [card |-> card, manifest |-> m, signing |-> row[a].signing]
           g == [worker[w] EXCEPT !.pc = "update", !.copy = c]
<1>0. /\ worker[w] \in Worker /\ worker[w].pc = "key"
      /\ Justified(worker[w], accounts, row, deployed, now)
  BY HeldIsTyped DEF CInv, AllJustified, AgentReadKey
<1>1. CASE ~Exists(a)
  <2>1. End(w) /\ UNCHANGED <<accounts, row, deployed, cached, now>>
    BY <1>1 DEF AgentReadKey
  <2> QED BY <2>1, EndJustified
<1>2. CASE Exists(a)
  <2>1. /\ worker' = [worker EXCEPT ![w] = g]
        /\ UNCHANGED <<accounts, row, deployed, cached, now>>
    BY <1>2 DEF AgentReadKey
  <2>2. Issued(m, deployed)
    <3>1. deployed = 1 => d = 1
      BY <1>0 DEF Justified
    <3> QED BY <3>1, ManifestIsIssued
  <2>3. c.manifest = m
    OBVIOUS
  <2> HIDE DEF c, m
  <2>4. g.pc = "update" /\ g.copy = c /\ g.deploy = d /\ g.verdict = worker[w].verdict /\ g.since = worker[w].since
    BY <1>0 DEF Worker
  <2> HIDE DEF g
  <2>5. Justified(g, accounts, row, deployed, now)
    BY <1>0, <2>2, <2>3, <2>4 DEF Justified, AtAResolve
  <2> QED BY <2>1, <2>5, OneWorkerJustified DEF CInv, CacheIssued
<1> QED BY <1>1, <1>2

LEMMA AgentUpdateJustified ==
  ASSUME CInv, NEW w \in Workers, AgentUpdate(w)
  PROVE  RowsIssued' /\ AllJustified' /\ CacheIssued'
<1> DEFINE a == worker[w].agent
           r == worker[w].copy
           f == [worker EXCEPT ![w] = IdleWorker]
<1>0. /\ WorkerOK(worker[w], accounts, now) /\ a \in Agents /\ now \in Nat
      /\ Justified(worker[w], accounts, row, deployed, now)
  BY HeldIsTyped DEF CInv, AllJustified
<1>1. r \in Row /\ r # NoRow /\ r.manifest # NoManifest
  BY <1>0, Nothing DEF WorkerOK, AgentUpdate, Row
<1>2. Issued(r.manifest, deployed)
  BY <1>0, <1>1 DEF Justified, AgentUpdate
<1>3. row' = Updated(a, r) /\ worker' = Caused(a, f) /\ UNCHANGED <<accounts, deployed, cached, now>>
  BY DEF AgentUpdate
<1>4. IdleWorker \in Worker /\ ~AtAResolve(IdleWorker)
  BY <1>0, IdleIsOK DEF WorkerOK, AtAResolve, IdleWorker
<1>5. /\ f \in [Workers -> Worker]
      /\ \A v \in Workers : f[v] = IF v = w THEN IdleWorker ELSE worker[v]
  BY <1>4 DEF CInv, IInv, WorkersOK
<1> HIDE DEF a, r, f
<1>6. RowsIssued' /\ \A b \in Agents : b # a => row'[b] = row[b]
  BY <1>0, <1>1, <1>2, <1>3, RowsAreIssued
<1>7. \A v \in Workers : Justified(f[v], accounts, row, deployed, now)
  BY <1>5, IdleIsJustified DEF CInv, AllJustified
<1>8. \A v \in Workers : AtAResolve(f[v]) => Resolving(v) /\ f[v].agent = worker[v].agent
  BY <1>4, <1>5 DEF AtAResolve, Resolving
<1>9. \A v \in Workers : Justified(Caused(a, f)[v], accounts, row', deployed, now)
  BY <1>0, <1>5, <1>6, <1>7, <1>8, CausedIsJustified
<1>10. AllJustified'
  BY <1>3, <1>9 DEF AllJustified
<1> QED BY <1>3, <1>6, <1>10 DEF CInv, CacheIssued

LEMMA AgentDeleteJustified ==
  ASSUME CInv, NEW a \in Agents, AgentDelete(a)
  PROVE  RowsIssued' /\ AllJustified' /\ CacheIssued'
<1>1. /\ row' = [row EXCEPT ![a] = NoRow] /\ worker' = Caused(a, worker)
      /\ UNCHANGED <<accounts, deployed, cached, now>>
  BY DEF AgentDelete
<1>2. RowsIssued' /\ \A b \in Agents : b # a => row'[b] = row[b]
  BY <1>1, RowsAreIssued
<1>3. /\ worker \in [Workers -> Worker]
      /\ \A v \in Workers : Justified(worker[v], accounts, row, deployed, now)
      /\ \A v \in Workers : AtAResolve(worker[v]) => Resolving(v)
  BY DEF CInv, IInv, WorkersOK, AllJustified, AtAResolve, Resolving
<1>4. \A v \in Workers : Justified(Caused(a, worker)[v], accounts, row', deployed, now)
  BY <1>2, <1>3, CausedIsJustified
<1>5. AllJustified'
  BY <1>1, <1>4 DEF AllJustified
<1> QED BY <1>1, <1>2, <1>5 DEF CInv, CacheIssued

\* Refreshing a manifest is no cause: the card stays, or whoever replaced it
\* was the cause.
LEMMA CatalogRefreshJustified ==
  ASSUME CInv, NEW w \in Workers, CatalogRefresh(w)
  PROVE  RowsIssued' /\ AllJustified' /\ CacheIssued'
<1> DEFINE a == worker[w].agent
           r == Refreshed(w)
           g == [worker[w] EXCEPT !.pc = "entry", !.copy = r]
           f == [worker EXCEPT ![w] = g]
<1>0. /\ worker[w] \in Worker /\ a \in Agents /\ now \in Nat /\ worker[w].since \in Nat
      /\ worker[w].since <= now /\ worker[w].pc = "refresh"
      /\ Justified(worker[w], accounts, row, deployed, now)
  BY HeldIsTyped, Numbers DEF CInv, AllJustified, CatalogRefresh
<1>1. /\ r \in Row /\ r # NoRow /\ r.manifest # NoManifest /\ r.card = worker[w].copy.card
      /\ Issued(r.manifest, deployed) /\ r.manifest.expires > worker[w].since + 1
  <2>1. r \in Row
    BY <1>0, RefreshedIsOK DEF CInv
  <2>2. worker[w].copy \in Record
    BY <1>0, HeldIsTyped DEF CInv, WorkerOK
  <2>3. /\ r.card = worker[w].copy.card
        /\ r.manifest = ManifestFor(a, worker[w].copy.card, worker[w].deploy)
    BY <2>2 DEF Refreshed, Record
  <2>4. deployed = 1 => worker[w].deploy = 1
    BY <1>0 DEF Justified
  <2>5. Issued(r.manifest, deployed) /\ r.manifest.expires = now + 2
    BY <2>3, <2>4, ManifestIsIssued DEF Validity
  <2> QED BY <1>0, <2>1, <2>3, <2>5, Nothing DEF Row
<1>2. /\ row' = Updated(a, r) \/ row' = row
      /\ \/ row'[a].card # row[a].card /\ worker' = Caused(a, f)
         \/ row'[a].card = row[a].card /\ worker' = f
      /\ UNCHANGED <<accounts, deployed, cached, now>>
  BY DEF CatalogRefresh
<1> HIDE DEF a, r
<1>3. /\ g.since = worker[w].since /\ g.pc = "entry" /\ g.copy = r /\ g.cause = worker[w].cause
      /\ g.agent = a /\ g.deploy = worker[w].deploy /\ g.verdict = worker[w].verdict /\ g \in Worker
  <2>1. r \in Record
    BY <1>1 DEF Row, Record
  <2> QED BY <1>0, <2>1 DEF Worker, Record, PC, a
<1> HIDE DEF g
<1>4. Justified(g, accounts, row, deployed, now)
  BY <1>0, <1>1, <1>3 DEF Justified, Undisturbed, AtAResolve, a
<1>5. f \in [Workers -> Worker] /\ \A v \in Workers : f[v] = IF v = w THEN g ELSE worker[v]
  BY <1>3 DEF CInv, IInv, WorkersOK
<1> HIDE DEF f
<1>6. \A v \in Workers : Justified(f[v], accounts, row, deployed, now)
  BY <1>4, <1>5 DEF CInv, AllJustified
<1>7. RowsIssued' /\ \A b \in Agents : b # a => row'[b] = row[b]
  <2>1. CASE row' = Updated(a, r)
    BY <1>0, <1>1, <1>2, <2>1, RowsAreIssued
  <2>2. CASE row' = row
    BY <1>2, <2>2 DEF CInv, RowsIssued
  <2> QED BY <1>2, <2>1, <2>2
<1>8. CASE row'[a].card # row[a].card
  <2>1. \A v \in Workers : AtAResolve(f[v]) => Resolving(v) /\ f[v].agent = worker[v].agent
    BY <1>0, <1>3, <1>5 DEF AtAResolve, Resolving, a
  <2>2. \A v \in Workers : Justified(Caused(a, f)[v], accounts, row', deployed, now)
    BY <1>0, <1>5, <1>6, <1>7, <2>1, CausedIsJustified
  <2>3. AllJustified'
    BY <1>2, <1>8, <2>2 DEF AllJustified
  <2> QED BY <1>2, <1>7, <2>3 DEF CInv, CacheIssued
<1>9. CASE row'[a].card = row[a].card
  <2>1. row[a] # NoRow => row'[a] # NoRow
    <3>1. CASE row[a] # NoRow /\ row' = Updated(a, r)
      <4>1. row[a] \in Row /\ row \in [Agents -> Row \union {NoRow}]
        BY <1>0, <3>1 DEF CInv, IInv, RowsOK
      <4>2. row'[a].manifest = r.manifest
        BY <1>0, <3>1, <4>1 DEF Updated, Exists, Row
      <4> QED BY <1>1, <4>2 DEF NoRow
    <3> QED BY <1>2, <3>1
  <2>2. ASSUME NEW v \in Workers
        PROVE  Justified(f[v], accounts, row', deployed, now)
    <3>1. f[v].agent \in Agents /\ Justified(f[v], accounts, row, deployed, now)
      BY <1>5, <1>6 DEF Worker
    <3> QED BY <1>7, <1>9, <2>1, <3>1 DEF Justified, Undisturbed
  <2>3. AllJustified'
    BY <1>2, <1>9, <2>2 DEF AllJustified
  <2> QED BY <1>2, <1>7, <2>3 DEF CInv, CacheIssued
<1> QED BY <1>8, <1>9

LEMMA CatalogRefreshFailsJustified ==
  ASSUME CInv, NEW w \in Workers, CatalogRefreshFails(w)
  PROVE  RowsIssued' /\ AllJustified' /\ CacheIssued'
<1> DEFINE c == [worker[w].copy EXCEPT !.manifest = NoManifest]
           g == [worker[w] EXCEPT !.pc = "entry", !.copy = c, !.cause = "yes"]
<1>0. /\ WorkerOK(worker[w], accounts, now) /\ worker[w] \in Worker /\ worker[w].pc = "refresh"
      /\ Justified(worker[w], accounts, row, deployed, now)
  BY HeldIsTyped DEF CInv, AllJustified, CatalogRefreshFails
<1>1. c.manifest = NoManifest
  BY <1>0 DEF WorkerOK, Record
<1>2. worker' = [worker EXCEPT ![w] = g] /\ UNCHANGED <<accounts, row, deployed, cached, now>>
  BY DEF CatalogRefreshFails
<1> HIDE DEF c
<1>3. /\ g.since = worker[w].since /\ g.pc = "entry" /\ g.copy = c /\ g.cause = "yes"
      /\ g.deploy = worker[w].deploy /\ g.verdict = worker[w].verdict
  BY <1>0 DEF Worker
<1> HIDE DEF g
<1>4. Justified(g, accounts, row, deployed, now)
  BY <1>0, <1>1, <1>3 DEF Justified, AtAResolve
<1> QED BY <1>2, <1>4, OneWorkerJustified DEF CInv, CacheIssued

LEMMA ResolveEntryJustified ==
  ASSUME CInv, NEW w \in Workers, NEW policy \in Policies, ResolveEntry(w, policy)
  PROVE  RowsIssued' /\ AllJustified' /\ CacheIssued'
<1> DEFINE m == worker[w].copy.manifest
           keys == KeysAt(m, policy)
           f == [worker[w] EXCEPT !.policy = policy]
           v1 == CatalogVerdict("valid", policy)
           v2 == EntryVerdict(m, "api", policy, keys, now)
           verdict == FirstRefusal(<<v1, v2>>)
           g == [f EXCEPT !.pc = "card"]
<1>0. /\ worker[w] \in Worker /\ worker[w].pc = "entry" /\ now \in Nat /\ worker[w].since \in Nat
      /\ deployed \in Nat /\ deployed > 0
      /\ Justified(worker[w], accounts, row, deployed, now)
      /\ WorkerOK(worker[w], accounts, now)
  BY HeldIsTyped, Numbers DEF CInv, AllJustified, ResolveEntry
<1>1. /\ Judge(w, f, verdict, "card") /\ cached' = keys
      /\ UNCHANGED <<accounts, row, deployed, now>>
  BY DEF ResolveEntry
<1>2. v1 = "accepted"
  BY CatalogVerdictSays
<1>3. v2 = IF m = NoManifest
           THEN IF Guaranteed(policy) THEN "trust_downgrade" ELSE "manifest_missing"
           ELSE IF Guaranteed(policy) /\ m.by # "guarantor" THEN "untrusted_guarantor"
           ELSE IF Guaranteed(policy) /\ m.key \notin keys THEN "manifest_signature_invalid"
           ELSE IF m.url # "api" THEN "manifest_subject_mismatch"
           ELSE IF Guaranteed(policy) /\ m.expires <= now THEN "manifest_expired"
           ELSE "accepted"
  BY EntryVerdictSays
<1> HIDE DEF v1, v2
<1>4. verdict = v2
  BY <1>2, FirstOfTwo
<1> HIDE DEF verdict
<1>5. CacheIssued' /\ (m # NoManifest /\ Guaranteed(policy) /\ deployed = 1 => keys = Published(1))
  <2>1. deployed = 1 => cached \in {{}, Published(1)}
    BY DEF CInv, CacheIssued
  <2>2. Published(1) # {}
    BY DEF Published
  <2>3. deployed = 1 => keys \in {{}, Published(1)}
    BY <2>1 DEF KeysAt
  <2>4. m # NoManifest /\ Guaranteed(policy) /\ deployed = 1 => keys = Published(1)
    BY <2>1, <2>2 DEF KeysAt
  <2> QED BY <1>1, <2>3, <2>4 DEF CacheIssued
<1> HIDE DEF keys
<1>6. /\ m # NoManifest => Issued(m, deployed)
      /\ worker[w].cause # "yes" => m # NoManifest /\ m.expires > worker[w].since + 1
      /\ now <= worker[w].since + 1
  BY <1>0 DEF Justified, Undisturbed, AtAResolve
<1>7. m # NoManifest => m.expires \in Int
  BY <1>0, TrustAssumption DEF WorkerOK, Record, Manifest, Times, Validity
<1>8. verdict # "accepted" /\ worker[w].cause # "yes" =>
        verdict = "manifest_signature_invalid" /\ deployed > 1
  <2>1. GuarantorKey[1] \in Published(1)
    BY DEF Published
  <2> HIDE DEF m
  <2>2. ASSUME verdict # "accepted", worker[w].cause # "yes"
        PROVE  verdict = "manifest_signature_invalid" /\ deployed > 1
    <3>1. m # NoManifest /\ m.url = "api" /\ m.by = "guarantor" /\ ~(m.expires <= now)
      BY <1>0, <1>6, <1>7, <2>2 DEF Issued
    <3>2. verdict = "manifest_signature_invalid" /\ Guaranteed(policy) /\ m.key \notin keys
      BY <1>3, <1>4, <2>2, <3>1
    <3>3. deployed # 1
      BY <1>5, <1>6, <2>1, <3>1, <3>2 DEF Issued
    <3> QED BY <1>0, <3>2, <3>3
  <2> QED BY <2>2
<1>9. /\ f \in Worker /\ f.deploy = worker[w].deploy /\ f.since = worker[w].since
      /\ f.cause = worker[w].cause
  BY <1>0 DEF Worker
<1>10. /\ g.pc = "card" /\ g.deploy = worker[w].deploy /\ g.verdict = worker[w].verdict /\ g.since = worker[w].since
       /\ g.cause = worker[w].cause /\ g.copy = worker[w].copy /\ g.agent = worker[w].agent
  BY <1>0 DEF Worker
<1>11. Justified(g, accounts, row, deployed, now)
  <2> HIDE DEF g
  <2> QED BY <1>0, <1>10 DEF Justified, Undisturbed, AtAResolve
<1> HIDE DEF f
<1>12. RowsIssued' /\ AllJustified'
  BY <1>0, <1>1, <1>8, <1>9, <1>11, JudgedIsJustified
<1> QED BY <1>5, <1>12

LEMMA ResolveCardJustified ==
  ASSUME CInv, NEW w \in Workers, ResolveCard(w)
  PROVE  RowsIssued' /\ AllJustified' /\ CacheIssued'
<1> DEFINE card == row[worker[w].agent].card
           m == worker[w].copy.manifest
           f == [worker[w] EXCEPT !.card = card]
           verdict == IF card = NoCard THEN "invalid_peer_card" ELSE DigestVerdict(m, card)
           g == [f EXCEPT !.pc = "jwks"]
<1>0. /\ worker[w] \in Worker /\ worker[w].pc = "card" /\ worker[w].agent \in Agents
      /\ Justified(worker[w], accounts, row, deployed, now)
      /\ WorkerOK(worker[w], accounts, now)
  BY HeldIsTyped DEF CInv, AllJustified, ResolveCard
<1>1. Judge(w, f, verdict, "jwks") /\ UNCHANGED <<accounts, row, deployed, cached, now>>
  BY DEF ResolveCard
<1>2. m.card = worker[w].copy.card
  BY <1>0 DEF WorkerOK, OfOnePiece
<1>3. card \in Card \union {NoCard}
  BY <1>0 DEF CInv, IInv, RowsOK, Row, NoRow
<1>4. verdict # "accepted" => worker[w].cause = "yes"
  <2>1. ASSUME worker[w].cause # "yes" PROVE verdict = "accepted"
    <3>1. row[worker[w].agent] # NoRow /\ card = worker[w].copy.card
      BY <1>0, <2>1 DEF Justified, Undisturbed, AtAResolve
    <3>2. card # NoCard
      BY <1>0, <3>1, Nothing DEF CInv, IInv, RowsOK, Row
    <3> QED BY <1>2, <3>1, <3>2 DEF DigestVerdict, Check
  <2> QED BY <2>1
<1> HIDE DEF verdict, card
<1>5. /\ f \in Worker /\ f.deploy = worker[w].deploy /\ f.since = worker[w].since
      /\ f.cause = worker[w].cause
  BY <1>0, <1>3 DEF Worker
<1>6. /\ g.pc = "jwks" /\ g.deploy = worker[w].deploy /\ g.verdict = worker[w].verdict /\ g.since = worker[w].since
      /\ g.cause = worker[w].cause /\ g.copy = worker[w].copy /\ g.agent = worker[w].agent
  BY <1>0 DEF Worker
<1>7. Justified(g, accounts, row, deployed, now)
  <2> HIDE DEF g
  <2> QED BY <1>0, <1>6 DEF Justified, Undisturbed, AtAResolve
<1> HIDE DEF f
<1>8. RowsIssued' /\ AllJustified'
  BY <1>0, <1>1, <1>4, <1>5, <1>7, JudgedIsJustified
<1> QED BY <1>1, <1>8 DEF CInv, CacheIssued

LEMMA ResolveKeysJustified ==
  ASSUME CInv, NEW w \in Workers, ResolveKeys(w)
  PROVE  RowsIssued' /\ AllJustified' /\ CacheIssued'
<1> DEFINE a == worker[w].agent
           f == worker[w]
           v == KeyVerdict(f.copy.manifest, f.card, row[a].card.key, f.policy)
           verdict == IF Exists(a) THEN v ELSE "keys_unavailable"
           g == [f EXCEPT !.pc = "done"]
<1>0. /\ f \in Worker /\ f.pc = "jwks" /\ a \in Agents
      /\ Justified(f, accounts, row, deployed, now) /\ WorkerOK(f, accounts, now)
  BY HeldIsTyped DEF CInv, AllJustified, ResolveKeys
<1>1. Judge(w, f, verdict, "done") /\ UNCHANGED <<accounts, row, deployed, cached, now>>
  BY DEF ResolveKeys
<1>2. f.card = f.copy.card /\ f.copy.manifest.attested = (IF a \in accounts THEN "yes" ELSE "no")
  BY <1>0 DEF WorkerOK, OfOnePiece
<1>3. v = IF f.card.key # row[a].card.key THEN "card_signature_invalid"
          ELSE IF Level[f.policy] = 2 /\ f.copy.manifest.attested = "no" THEN "attestation_missing"
          ELSE "accepted"
  BY KeyVerdictSays
<1> HIDE DEF v
<1>4. verdict # "accepted" /\ f.cause # "yes" =>
        verdict = "attestation_missing" /\ a \notin accounts
  <2>1. ASSUME verdict # "accepted", f.cause # "yes"
        PROVE  verdict = "attestation_missing" /\ a \notin accounts
    <3>1. row[a] # NoRow /\ row[a].card = f.copy.card
      BY <1>0, <2>1 DEF Justified, Undisturbed, AtAResolve
    <3> QED BY <1>2, <1>3, <2>1, <3>1 DEF Exists
  <2> QED BY <2>1
<1> HIDE DEF verdict
<1>5. /\ g.pc = "done" /\ g.deploy = f.deploy /\ g.since = f.since /\ g.verdict = f.verdict
  BY <1>0 DEF Worker
<1>6. verdict = "accepted" => Justified(g, accounts, row, deployed, now)
  <2>1. f.verdict = "accepted"
    BY <1>0 DEF Justified
  <2> HIDE DEF g, f
  <2> QED BY <1>0, <1>5, <2>1 DEF Justified, AtAResolve
<1> HIDE DEF f, g
<1>7. RowsIssued' /\ AllJustified'
  BY <1>0, <1>1, <1>4, <1>6, JudgedIsJustified DEF f, g
<1> QED BY <1>1, <1>7 DEF CInv, CacheIssued
LEMMA InitJustified == Init => CInv
<1> SUFFICES ASSUME Init
             PROVE  CInv
  OBVIOUS
<1>1. IInv
  BY InitHolds
<1>2. RowsIssued /\ AllJustified /\ CacheIssued
  BY IdleIsJustified DEF Init, RowsIssued, AllJustified, CacheIssued
<1> QED BY <1>1, <1>2 DEF CInv

LEMMA NextJustified == CInv /\ [Next]_vars => CInv'
<1> SUFFICES ASSUME CInv, [Next]_vars
             PROVE  RowsIssued' /\ AllJustified' /\ CacheIssued'
  BY NextKeeps DEF CInv
<1>1. ASSUME NEW w \in Workers, NEW a \in Agents, AgentRead(w, a) \/ ResolveRead(w, a)
      PROVE  RowsIssued' /\ AllJustified' /\ CacheIssued'
  BY <1>1, ReadsJustified
<1>2. ASSUME NEW w \in Workers,
             AgentCreate(w) \/ AgentReadWinner(w) \/ AgentReadKey(w) \/ AgentUpdate(w)
      PROVE  RowsIssued' /\ AllJustified' /\ CacheIssued'
  BY <1>2, AgentCreateJustified, AgentReadWinnerJustified, AgentReadKeyJustified,
     AgentUpdateJustified
<1>3. ASSUME NEW w \in Workers, CatalogRefresh(w) \/ CatalogRefreshFails(w)
      PROVE  RowsIssued' /\ AllJustified' /\ CacheIssued'
  BY <1>3, CatalogRefreshJustified, CatalogRefreshFailsJustified
<1>4. ASSUME NEW w \in Workers,
             ResolveCard(w) \/ ResolveKeys(w) \/ \E policy \in Policies : ResolveEntry(w, policy)
      PROVE  RowsIssued' /\ AllJustified' /\ CacheIssued'
  BY <1>4, ResolveCardJustified, ResolveKeysJustified, ResolveEntryJustified
<1>5. ASSUME NEW w \in Workers, ResolveEnds(w) \/ EndsEarly(w)
      PROVE  RowsIssued' /\ AllJustified' /\ CacheIssued'
  BY <1>5, EndJustified DEF ResolveEnds, EndsEarly
<1>6. CASE \E a \in Agents : AgentDelete(a)
  BY <1>6, AgentDeleteJustified
<1>7. CASE Deploy
  <2>1. /\ deployed' = deployed + 1 /\ deployed' # 1 /\ (deployed > 1 => deployed' > 1)
        /\ deployed' > 1 /\ UNCHANGED <<accounts, row, cached, now, worker>>
    BY <1>7, Numbers DEF Deploy, CInv
  <2>2. \A w \in Workers : Justified(worker[w], accounts, row, deployed, now)
    BY DEF CInv, AllJustified
  <2>3. \A w \in Workers : Justified(worker[w], accounts, row, deployed', now)
    BY <2>1, <2>2 DEF Justified, Excused, Issued
  <2> QED BY <2>1, <2>3 DEF CInv, RowsIssued, AllJustified, CacheIssued, Issued
<1>8. CASE CacheExpires
  BY <1>8 DEF CacheExpires, CInv, RowsIssued, AllJustified, CacheIssued
<1>9. CASE Tick
  <2>1. now \in Nat /\ now' = now + 1 /\ UNCHANGED <<accounts, row, deployed, cached, worker>>
    BY <1>9, Numbers DEF Tick, CInv
  <2>2. ASSUME NEW w \in Workers
        PROVE  Justified(worker[w], accounts, row, deployed, now + 1)
    <3>1. /\ Justified(worker[w], accounts, row, deployed, now) /\ worker[w].since \in Nat
          /\ worker[w].pc = "idle" \/ worker[w].since = now
      BY <1>9, Numbers DEF CInv, AllJustified, Tick
    <3> QED BY <2>1, <3>1 DEF Justified
  <2> QED BY <2>1, <2>2 DEF CInv, RowsIssued, AllJustified, CacheIssued
<1>10. CASE UNCHANGED vars
  BY <1>10 DEF vars, CInv, RowsIssued, AllJustified, CacheIssued
<1> QED
  BY <1>1, <1>2, <1>3, <1>4, <1>5, <1>6, <1>7, <1>8, <1>9, <1>10 DEF Next

THEOREM JustificationHolds == Spec => []CInv
BY InitJustified, NextJustified, PTL DEF Spec

\* A resolve refuses an agent only for a cause: its card changed meanwhile or
\* the guarantor could not sign, its key is not the one of the key set that the
\* client has, or a verified account is asked of a booking page.
THEOREM RefusalsAreCaused == Spec => []RefusedForACause
<1>1. CInv => RefusedForACause
  BY DEF CInv, AllJustified, Justified, Excused, RefusedForACause
<1> QED BY <1>1, JustificationHolds, PTL
-----------------------------------------------------------------------------
(* The lab's tables.                                                        *)
LEMMA LevelIs ==
  ASSUME NEW policy \in Policies
  PROVE  /\ Level[policy] \in {0, 1, 2}
         /\ Guaranteed(policy) <=> Level[policy] # 0
BY DEF Policies, Level, Guaranteed

LEMMA StoredIs ==
  ASSUME CInv, NEW a \in Agents, Exists(a)
  PROVE  /\ row[a] \in Row /\ row[a].card # NoCard
         /\ row[a].manifest # NoManifest
         /\ row[a].manifest.url = "api" /\ row[a].manifest.by = "guarantor"
         /\ row[a].manifest.card = row[a].card
         /\ now + Validity > now /\ deployed \in Deploys
<1>1. row[a] \in Row /\ row[a].manifest.card = row[a].card
  BY RowIsOK DEF CInv, OfOnePiece
<1>2. row[a].manifest # NoManifest /\ row[a].card # NoCard
  BY <1>1, Nothing DEF Row
<1>3. row[a].manifest.url = "api" /\ row[a].manifest.by = "guarantor"
  BY DEF CInv, RowsIssued, Issued, Exists
<1>4. now + Validity > now
  BY Numbers DEF Validity, CInv
<1> QED BY <1>1, <1>2, <1>3, <1>4 DEF CInv, IInv, RestOK

LEMMA LabVerdictSays ==
  ASSUME NEW s, NEW a, NEW policy
  PROVE  LabVerdict(s, a, policy) =
           LET m == LabManifest(s, a) IN
           IF LabSignature(s) = "none" /\ Guaranteed(policy) THEN "catalog_signature_missing"
           ELSE IF LabSignature(s) = "invalid" THEN "catalog_signature_invalid"
           ELSE IF m = NoManifest
           THEN IF Guaranteed(policy) THEN "trust_downgrade" ELSE "manifest_missing"
           ELSE IF Guaranteed(policy) /\ m.by # "guarantor" THEN "untrusted_guarantor"
           ELSE IF Guaranteed(policy) /\ m.key \notin Published(deployed)
           THEN "manifest_signature_invalid"
           ELSE IF m.url # "lab" THEN "manifest_subject_mismatch"
           ELSE IF Guaranteed(policy) /\ m.expires <= now THEN "manifest_expired"
           ELSE IF m.card # LabCard(s, a) THEN "card_digest_mismatch"
           ELSE IF LabCard(s, a).key # row[a].card.key THEN "card_signature_invalid"
           ELSE IF Level[policy] = 2 /\ m.attested = "no" THEN "attestation_missing"
           ELSE "accepted"
<1> DEFINE m == LabManifest(s, a)
           v1 == CatalogVerdict(LabSignature(s), policy)
           v2 == EntryVerdict(m, "lab", policy, Published(deployed), now)
           v3 == DigestVerdict(m, LabCard(s, a))
           v4 == KeyVerdict(m, LabCard(s, a), row[a].card.key, policy)
<1>1. v1 = IF LabSignature(s) = "none" /\ Guaranteed(policy) THEN "catalog_signature_missing"
           ELSE IF LabSignature(s) = "invalid" THEN "catalog_signature_invalid" ELSE "accepted"
  BY CatalogVerdictSays
<1>2. v2 = IF m = NoManifest
           THEN IF Guaranteed(policy) THEN "trust_downgrade" ELSE "manifest_missing"
           ELSE IF Guaranteed(policy) /\ m.by # "guarantor" THEN "untrusted_guarantor"
           ELSE IF Guaranteed(policy) /\ m.key \notin Published(deployed)
           THEN "manifest_signature_invalid"
           ELSE IF m.url # "lab" THEN "manifest_subject_mismatch"
           ELSE IF Guaranteed(policy) /\ m.expires <= now THEN "manifest_expired"
           ELSE "accepted"
  BY EntryVerdictSays
<1>3. v3 = IF m.card # LabCard(s, a) THEN "card_digest_mismatch" ELSE "accepted"
  BY DEF DigestVerdict, Check
<1>4. v4 = IF LabCard(s, a).key # row[a].card.key THEN "card_signature_invalid"
           ELSE IF Level[policy] = 2 /\ m.attested = "no" THEN "attestation_missing"
           ELSE "accepted"
  BY KeyVerdictSays
<1>5. LabVerdict(s, a, policy) = FirstRefusal(<<v1, v2, v3, v4>>)
  BY DEF LabVerdict
<1> HIDE DEF v1, v2, v3, v4
<1>6. LabVerdict(s, a, policy) =
        IF v1 # "accepted" THEN v1 ELSE IF v2 # "accepted" THEN v2
        ELSE IF v3 # "accepted" THEN v3 ELSE v4
  BY <1>5, FirstOfFour
<1> HIDE DEF m
<1>7. LabVerdict(s, a, policy) =
           IF LabSignature(s) = "none" /\ Guaranteed(policy) THEN "catalog_signature_missing"
           ELSE IF LabSignature(s) = "invalid" THEN "catalog_signature_invalid"
           ELSE IF m = NoManifest
           THEN IF Guaranteed(policy) THEN "trust_downgrade" ELSE "manifest_missing"
           ELSE IF Guaranteed(policy) /\ m.by # "guarantor" THEN "untrusted_guarantor"
           ELSE IF Guaranteed(policy) /\ m.key \notin Published(deployed)
           THEN "manifest_signature_invalid"
           ELSE IF m.url # "lab" THEN "manifest_subject_mismatch"
           ELSE IF Guaranteed(policy) /\ m.expires <= now THEN "manifest_expired"
           ELSE IF m.card # LabCard(s, a) THEN "card_digest_mismatch"
           ELSE IF LabCard(s, a).key # row[a].card.key THEN "card_signature_invalid"
           ELSE IF Level[policy] = 2 /\ m.attested = "no" THEN "attestation_missing"
           ELSE "accepted"
  BY <1>1, <1>2, <1>3, <1>4, <1>6
<1> QED BY <1>7 DEF m

\* What the table expects, by the way a catalog is broken.
Sound == {"baseline", "rotated_key", "revoked_agent", "mirror"}
Forgeries == {"expired_manifest", "unknown_guarantor", "impersonated_guarantor"}
Broken == {"tampered_catalog", "unsigned_catalog", "substituted_card", "replayed_entry", "downgraded"}

LEMMA ExpectedIs ==
  ASSUME NEW policy \in Policies, NEW a
  PROVE  /\ Scenarios = Sound \union Forgeries \union Broken
         /\ \A s \in Sound : ExpectedVerdict(s, policy, a) =
              IF Level[policy] = 2 /\ a \notin accounts THEN "attestation_missing" ELSE "accepted"
         /\ ExpectedVerdict("expired_manifest", policy, a) =
              IF Level[policy] = 0 THEN "accepted" ELSE "manifest_expired"
         /\ ExpectedVerdict("unknown_guarantor", policy, a) =
              IF Level[policy] = 0 THEN "accepted" ELSE "untrusted_guarantor"
         /\ ExpectedVerdict("impersonated_guarantor", policy, a) =
              IF Level[policy] = 0 THEN "accepted" ELSE "manifest_signature_invalid"
         /\ ExpectedVerdict("unsigned_catalog", policy, a) =
              IF Level[policy] = 0 THEN "accepted" ELSE "catalog_signature_missing"
         /\ ExpectedVerdict("tampered_catalog", policy, a) = "catalog_signature_invalid"
         /\ ExpectedVerdict("substituted_card", policy, a) = "card_digest_mismatch"
         /\ ExpectedVerdict("replayed_entry", policy, a) = "manifest_subject_mismatch"
         /\ ExpectedVerdict("downgraded", policy, a) =
              IF Level[policy] = 0 THEN "manifest_missing" ELSE "trust_downgrade"
<1>1. Level[policy] \in {0, 1, 2}
  BY LevelIs
<1>2. Scenarios = Sound \union Forgeries \union Broken
  BY DEF Scenarios, Expected, Sound, Forgeries, Broken
<1>3. ASSUME NEW s \in Sound
      PROVE  ExpectedVerdict(s, policy, a) =
               IF Level[policy] = 2 /\ a \notin accounts THEN "attestation_missing" ELSE "accepted"
  BY <1>1 DEF ExpectedVerdict, Expected, Sound
<1> QED BY <1>1, <1>2, <1>3 DEF ExpectedVerdict, Expected
\* The lab's own manifest of a stored agent passes, unless it is spoilt.
LEMMA GenuineIs ==
  ASSUME CInv, NEW a \in Agents, Exists(a), NEW key, NEW genuine,
         genuine = Dated(a, row[a].card, "lab", key, now + Validity)
  PROVE  /\ genuine # NoManifest /\ genuine.by = "guarantor" /\ genuine.url = "lab"
         /\ genuine.key = key /\ ~(genuine.expires <= now) /\ genuine.card = row[a].card
         /\ genuine.attested = "no" <=> a \notin accounts
<1>1. now + Validity \in Nat /\ now \in Nat /\ now + Validity > now
  BY Numbers DEF CInv, Validity
<1>2. /\ genuine.by = "guarantor" /\ genuine.url = "lab"
      /\ genuine.key = key /\ genuine.expires = now + Validity /\ genuine.card = row[a].card
      /\ genuine.attested = Attested(a)
  BY DEF Dated
<1>3. Attested(a) = "no" <=> a \notin accounts
  BY DEF Attested
<1>4. genuine # NoManifest
  BY <1>2 DEF NoManifest
<1>5. ~(genuine.expires <= now)
  BY <1>1, <1>2
<1> QED BY <1>2, <1>3, <1>4, <1>5

LEMMA SoundCatalogsPass ==
  ASSUME CInv, NEW a \in Agents, Exists(a), NEW policy \in Policies, NEW s \in Sound
  PROVE  LabVerdict(s, a, policy) = ExpectedVerdict(s, policy, a)
<1> DEFINE m == LabManifest(s, a)
<1>1. LabSignature(s) = "valid" /\ LabCard(s, a) = row[a].card
  BY DEF Sound, LabSignature, LabCard
<1>2. PICK key : m = Dated(a, row[a].card, "lab", key, now + Validity) /\ key \in Published(deployed)
  <2>1. CASE s = "rotated_key"
    <3>1. m = Dated(a, row[a].card, "lab", NextKey, now + Validity)
      BY <2>1 DEF LabManifest, Dated
    <3> QED BY <3>1 DEF Published
  <2>2. CASE s # "rotated_key"
    <3>1. m = Dated(a, row[a].card, "lab", GuarantorKey[deployed], now + Validity)
      BY <2>2 DEF Sound, LabManifest
    <3> QED BY <3>1 DEF Published
  <2> QED BY <2>1, <2>2
<1>3. /\ m # NoManifest /\ m.by = "guarantor" /\ m.url = "lab"
      /\ m.key = key /\ ~(m.expires <= now) /\ m.card = row[a].card
      /\ m.attested = "no" <=> a \notin accounts
  BY <1>2, GenuineIs
<1> HIDE DEF m
<1>4. LabVerdict(s, a, policy) =
        IF Level[policy] = 2 /\ a \notin accounts THEN "attestation_missing" ELSE "accepted"
  BY <1>1, <1>2, <1>3, LabVerdictSays DEF m
<1> QED BY <1>4, ExpectedIs

LEMMA ForgeriesAreFound ==
  ASSUME CInv, NEW a \in Agents, Exists(a), NEW policy \in Policies, NEW s \in Forgeries
  PROVE  LabVerdict(s, a, policy) = ExpectedVerdict(s, policy, a)
<1> DEFINE genuine == Dated(a, row[a].card, "lab", GuarantorKey[deployed], now + Validity)
           m == LabManifest(s, a)
<1>0. LabSignature(s) = "valid" /\ LabCard(s, a) = row[a].card /\ now \in Nat
      /\ GuarantorKey[deployed] \in Published(deployed) /\ RogueKey \notin Published(deployed)
  <2>1. deployed \in Deploys
    BY StoredIs
  <2>2. RogueKey # GuarantorKey[deployed] /\ RogueKey # NextKey
    BY <2>1, TrustAssumption DEF Deploys
  <2>3. now \in Nat
    BY Numbers DEF CInv
  <2> QED BY <2>2, <2>3 DEF Forgeries, LabSignature, LabCard, Published
<1>1. /\ genuine # NoManifest /\ genuine.by = "guarantor" /\ genuine.url = "lab"
      /\ genuine.key = GuarantorKey[deployed] /\ ~(genuine.expires <= now)
      /\ genuine.card = row[a].card
      /\ genuine.attested = "no" <=> a \notin accounts
  BY GenuineIs
<1>2. /\ s = "expired_manifest" => m = [genuine EXCEPT !.expires = now]
      /\ s = "unknown_guarantor" => m = [genuine EXCEPT !.by = "rogue", !.key = RogueKey]
      /\ s = "impersonated_guarantor" => m = [genuine EXCEPT !.key = RogueKey]
  BY DEF LabManifest
<1>3. /\ m.url = "lab" /\ m.card = row[a].card /\ m.attested = genuine.attested
      /\ s = "expired_manifest" =>
           m.expires = now /\ m.by = "guarantor" /\ m.key = GuarantorKey[deployed]
      /\ s = "unknown_guarantor" => m.by = "rogue" /\ m.expires = genuine.expires
      /\ s = "impersonated_guarantor" =>
           m.by = "guarantor" /\ m.key = RogueKey /\ m.expires = genuine.expires
  BY <1>1, <1>2 DEF Forgeries, Dated
<1>4. m # NoManifest
  BY <1>3 DEF NoManifest
<1> HIDE DEF m, genuine
<1>5. LabVerdict(s, a, policy) =
           IF Guaranteed(policy) /\ m.by # "guarantor" THEN "untrusted_guarantor"
           ELSE IF Guaranteed(policy) /\ m.key \notin Published(deployed)
           THEN "manifest_signature_invalid"
           ELSE IF Guaranteed(policy) /\ m.expires <= now THEN "manifest_expired"
           ELSE IF Level[policy] = 2 /\ m.attested = "no" THEN "attestation_missing"
           ELSE "accepted"
  BY <1>0, <1>3, <1>4, LabVerdictSays DEF m
<1>6. Level[policy] \in {0, 1, 2} /\ (Guaranteed(policy) <=> Level[policy] # 0)
  BY LevelIs
<1>7. CASE s = "expired_manifest"
  BY <1>0, <1>3, <1>5, <1>6, <1>7, ExpectedIs
<1>8. CASE s = "unknown_guarantor"
  BY <1>0, <1>3, <1>5, <1>6, <1>8, ExpectedIs
<1>9. CASE s = "impersonated_guarantor"
  BY <1>0, <1>3, <1>5, <1>6, <1>9, ExpectedIs
<1> QED BY <1>7, <1>8, <1>9 DEF Forgeries

LEMMA BrokenCatalogsAreRefused ==
  ASSUME CInv, NEW a \in Agents, Exists(a), NEW policy \in Policies, NEW s \in Broken,
         s = "replayed_entry" => row[a].manifest.key \in Published(deployed)
  PROVE  LabVerdict(s, a, policy) = ExpectedVerdict(s, policy, a)
<1> DEFINE genuine == Dated(a, row[a].card, "lab", GuarantorKey[deployed], now + Validity)
           m == LabManifest(s, a)
<1>0. /\ GuarantorKey[deployed] \in Published(deployed)
      /\ Level[policy] \in {0, 1, 2} /\ (Guaranteed(policy) <=> Level[policy] # 0)
  BY LevelIs DEF Published
<1>1. /\ genuine # NoManifest /\ genuine.by = "guarantor" /\ genuine.url = "lab"
      /\ genuine.key = GuarantorKey[deployed] /\ ~(genuine.expires <= now)
      /\ genuine.card = row[a].card
      /\ genuine.attested = "no" <=> a \notin accounts
  BY GenuineIs
<1>2. CASE s = "tampered_catalog"
  <2>1. LabSignature(s) = "invalid"
    BY <1>2 DEF LabSignature
  <2>2. LabVerdict(s, a, policy) = "catalog_signature_invalid"
    BY <2>1, LabVerdictSays
  <2> QED BY <1>2, <2>2, ExpectedIs
<1>3. CASE s = "unsigned_catalog"
  <2>1. LabSignature(s) = "none" /\ LabCard(s, a) = row[a].card /\ m = genuine
    BY <1>3 DEF LabSignature, LabCard, LabManifest
  <2> HIDE DEF m, genuine
  <2>2. LabVerdict(s, a, policy) =
          IF Level[policy] = 0 THEN "accepted" ELSE "catalog_signature_missing"
    BY <1>0, <1>1, <2>1, LabVerdictSays DEF m
  <2> QED BY <1>3, <2>2, ExpectedIs
<1>4. CASE s = "substituted_card"
  <2>1. LabSignature(s) = "valid" /\ LabCard(s, a) = NoCard /\ m = genuine
    BY <1>4 DEF LabSignature, LabCard, LabManifest
  <2> HIDE DEF m, genuine
  <2>2. row[a].card # NoCard
    BY StoredIs
  <2>3. LabVerdict(s, a, policy) = "card_digest_mismatch"
    BY <1>0, <1>1, <2>1, <2>2, LabVerdictSays DEF m
  <2> QED BY <1>4, <2>3, ExpectedIs
<1>5. CASE s = "replayed_entry"
  <2>1. /\ row[a].manifest # NoManifest /\ row[a].manifest.url = "api"
        /\ row[a].manifest.by = "guarantor"
    BY StoredIs
  <2>2. LabSignature(s) = "valid" /\ m = row[a].manifest
    BY <1>5, <2>1 DEF LabSignature, LabManifest, GenuineManifest
  <2> HIDE DEF m, genuine
  <2>3. LabVerdict(s, a, policy) = "manifest_subject_mismatch"
    BY <1>0, <1>5, <2>1, <2>2, LabVerdictSays DEF m
  <2> QED BY <1>5, <2>3, ExpectedIs
<1>6. CASE s = "downgraded"
  <2>1. LabSignature(s) = "valid" /\ m = NoManifest
    BY <1>6 DEF LabSignature, LabManifest
  <2> HIDE DEF m, genuine
  <2>2. LabVerdict(s, a, policy) =
          IF Level[policy] = 0 THEN "manifest_missing" ELSE "trust_downgrade"
    BY <1>0, <2>1, LabVerdictSays DEF m
  <2> QED BY <1>6, <2>2, ExpectedIs
<1> QED BY <1>2, <1>3, <1>4, <1>5, <1>6 DEF Broken

LEMMA CallersGetTheirVerdict ==
  ASSUME CInv, NEW a \in Agents, Exists(a), NEW policy \in Policies,
         NEW c \in DOMAIN ExpectedOfCaller, NEW account \in BOOLEAN,
         ~(LabHeader(c, a).issuer = a /\ QuietVerdict(a, policy) # "accepted"),
         ~(c = "signed_caller" /\ row[a].signing # row[a].card.key)
  PROVE  CallerVerdict(LabHeader(c, a), policy, account)
           = ExpectedOfCaller[c][IF account THEN 2 ELSE 1]
<1> DEFINE header == LabHeader(c, a)
<1>0. row[a].signing \in Keys /\ row[a].card.key \in Keys
  BY StoredIs DEF Row, Card
<1>1. /\ RogueKey \notin Keys /\ RogueKey # NoKey /\ NoKey \notin Keys
      /\ "nobody" \notin Agents
  BY TrustAssumption
<1>2. CASE c = "unsigned_caller"
  <2>1. header = NoHeader
    BY <1>2 DEF LabHeader
  <2> HIDE DEF header
  <2>2. CallerVerdict(header, policy, account) =
          IF account THEN "caller_signature_missing" ELSE "accepted"
    BY <2>1 DEF CallerVerdict
  <2> QED BY <1>2, <2>2 DEF header, ExpectedOfCaller
<1>3. CASE c = "signed_caller"
  <2>1. header.issuer = a /\ header.key = row[a].signing
    BY <1>3 DEF LabHeader
  <2>2. header # NoHeader /\ header.key = row[a].card.key
    BY <1>0, <1>1, <1>3, <2>1 DEF NoHeader
  <2> HIDE DEF header
  <2>3. QuietVerdict(a, policy) = "accepted"
    BY <2>1 DEF header
  <2>4. CallerVerdict(header, policy, account) =
          FirstRefusal(<<Check(header.key # row[a].card.key, "caller_key_mismatch"),
                         Check(account, "a2a_authorization_required")>>)
    BY <2>1, <2>2, <2>3 DEF CallerVerdict
  <2>5. CallerVerdict(header, policy, account) =
          IF account THEN "a2a_authorization_required" ELSE "accepted"
    BY <2>2, <2>4, FirstOfTwo DEF Check
  <2> QED BY <1>3, <2>5 DEF header, ExpectedOfCaller
<1>4. CASE c = "unguaranteed_caller"
  <2>1. header.issuer = "nobody" /\ header # NoHeader
    BY <1>4 DEF LabHeader, NoHeader
  <2> HIDE DEF header
  <2>2. CallerVerdict(header, policy, account) = "caller_unguaranteed"
    BY <1>1, <2>1 DEF CallerVerdict
  <2> QED BY <1>4, <2>2 DEF header, ExpectedOfCaller
<1>5. CASE c = "forged_caller"
  <2>1. header.issuer = a /\ header.key = RogueKey
    BY <1>5 DEF LabHeader
  <2>2. header # NoHeader /\ header.key # row[a].card.key
    BY <1>0, <1>1, <2>1 DEF NoHeader
  <2> HIDE DEF header
  <2>3. QuietVerdict(a, policy) = "accepted"
    BY <2>1 DEF header
  <2>4. CallerVerdict(header, policy, account) =
          FirstRefusal(<<Check(header.key # row[a].card.key, "caller_key_mismatch"),
                         Check(account, "a2a_authorization_required")>>)
    BY <2>1, <2>2, <2>3 DEF CallerVerdict
  <2>5. CallerVerdict(header, policy, account) = "caller_key_mismatch"
    BY <2>2, <2>4, FirstOfTwo DEF Check
  <2> QED BY <1>5, <2>5 DEF header, ExpectedOfCaller
<1> QED BY <1>2, <1>3, <1>4, <1>5 DEF ExpectedOfCaller

\* The lab's report passes on whatever rows it is derived from: each broken
\* catalog and each forged caller gets the verdict its table lists.
THEOREM LabReportHolds == Spec => []LabReportPasses
<1>1. ASSUME CInv
      PROVE  LabReportPasses
  <2>1. ASSUME NEW a \in Agents, NEW policy \in Policies, Exists(a), NEW s \in Scenarios,
               s = "replayed_entry" => row[a].manifest.key \in Published(deployed)
        PROVE  LabVerdict(s, a, policy) = ExpectedVerdict(s, policy, a)
    <3>1. s \in Sound \union Forgeries \union Broken
      BY ExpectedIs
    <3> QED BY <1>1, <2>1, <3>1, SoundCatalogsPass, ForgeriesAreFound, BrokenCatalogsAreRefused
  <2>2. ASSUME NEW a \in Agents, NEW policy \in Policies, Exists(a),
               NEW c \in DOMAIN ExpectedOfCaller, NEW account \in BOOLEAN,
               ~(LabHeader(c, a).issuer = a /\ QuietVerdict(a, policy) # "accepted"),
               ~(c = "signed_caller" /\ row[a].signing # row[a].card.key)
        PROVE  CallerVerdict(LabHeader(c, a), policy, account)
                 = ExpectedOfCaller[c][IF account THEN 2 ELSE 1]
    BY <1>1, <2>2, CallersGetTheirVerdict
  <2> QED BY <2>1, <2>2 DEF LabReportPasses
<1> QED BY <1>1, JustificationHolds, PTL
===============================================================================
