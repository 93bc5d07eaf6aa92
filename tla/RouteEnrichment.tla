--------------------------- MODULE RouteEnrichment ---------------------------
(***************************************************************************)
(* `skbx-route enrich`: a stream is read back and the public addresses in  *)
(* it are looked up, one HTTPS request at a time, within two budgets: of   *)
(* requests and of time.  Its input is what RouteTrace writes.             *)
(***************************************************************************)
EXTENDS RouteTrace

CONSTANTS
  MaxLookups,   \* --max-lookups
  Prefix, Asn,
  NetworkInfo,  \* what RIPEstat may say of an address
  RpkiStatus    \* ... and of an origin and its prefix

ASSUME EnrichmentAssumption ==
  /\ MaxLookups \in Nat \ {0}
  /\ NetworkInfo \subseteq [prefix : Prefix \cup {None}, asns : Seq(Asn)]
  /\ None \notin Prefix \cup RpkiStatus

VARIABLES
  todo,               \* eligible addresses not looked up yet
  address,            \* the one being looked up
  info,               \* the answer about it: its prefix, the origins still to validate
  claims,             \* what was learnt of it
  claims_by_address,
  rpki_by_origin,     \* verdicts so far, None for a failed request
  report,
  expired             \* the enrichment's duration is over

enrichment == <<todo, address, info, claims, claims_by_address, rpki_by_origin, report, expired>>
allVars == <<vars, enrichment>>

Answered == UNION {Responders(hop.probes) : hop \in Range(Hops(records))}

EnrichmentInit ==
  /\ Init
  /\ todo = {} /\ address = None /\ info = None /\ claims = {}
  /\ claims_by_address = <<>>
  /\ rpki_by_origin = <<>>
  /\ report = [lookups_attempted |-> 0, lookups_succeeded |-> 0, lookups_failed |-> 0,
               lookup_budget_exhausted |-> FALSE, duration_exhausted |-> FALSE]
  /\ expired = FALSE

\* read_records and replay; a stream that does not replay is not enriched.
StartEnrichment ==
  /\ phase = "ended" /\ Replays(records)
  /\ phase' = "enrich"
  /\ todo' = Answered \cap Public
  /\ UNCHANGED <<plan, ttl, observations, records, sequence, reliability, destination_reached,
                 duration_exhausted, network, elapsed, address, info, claims,
                 claims_by_address, rpki_by_origin, report, expired>>

OutOfBudget == report.lookups_attempted >= MaxLookups \/ expired

\* A mutant: running out of time goes unnoticed.
ExhaustedRequests ==
  [report EXCEPT !.lookup_budget_exhausted = report.lookups_attempted >= MaxLookups]

\* The budgets as they stand.
Exhausted ==
  [report EXCEPT !.lookup_budget_exhausted = report.lookups_attempted >= MaxLookups,
                 !.duration_exhausted = expired]

\* A request that is answered, refused, or cut off by the duration.
Requested(outcome) ==
  /\ report' = [report EXCEPT
       !.lookups_attempted = @ + 1,
       !.lookups_succeeded = IF outcome = "ok" THEN @ + 1 ELSE @,
       !.lookups_failed = IF outcome = "ok" THEN @ ELSE @ + 1,
       !.duration_exhausted = @ \/ outcome = "late"]
  /\ expired' = (expired \/ outcome = "late")

\* BTreeMap::insert.
Inserted(map, key, value) ==
  [k \in DOMAIN map \cup {key} |-> IF k = key THEN value ELSE map[k]]

Claim(field, value) == [field |-> field, value |-> value]

\* The routing of the next address.
LookUp(a, outcome, answer) ==
  /\ address = None /\ a \in todo /\ ~OutOfBudget
  /\ Requested(outcome)
  /\ address' = a
  /\ todo' = todo \ {a}
  /\ IF outcome = "ok" /\ answer.prefix # None
       THEN /\ claims' = {Claim("network_prefix", answer.prefix)} \cup
                         (IF answer.asns = <<>> THEN {} ELSE {Claim("origin_asn", answer.asns)})
            /\ info' = answer
       ELSE claims' = {} /\ info' = [prefix |-> None, asns |-> <<>>]
  /\ UNCHANGED <<claims_by_address, rpki_by_origin>>

Origin == <<Head(info.asns), info.prefix>>
Validating == address # None /\ info.asns # <<>>
Validated(found) ==
  /\ claims' = claims \cup {Claim("rpki_state", <<Origin[1], s>>) : s \in found \ {None}}
  /\ UNCHANGED <<todo, address, claims_by_address>>

\* The next origin was validated before.
Recall ==
  /\ Validating /\ Origin \in DOMAIN rpki_by_origin
  /\ Validated({rpki_by_origin[Origin]})
  /\ info' = [info EXCEPT !.asns = Tail(@)]
  /\ UNCHANGED <<rpki_by_origin, report, expired>>

\* It is validated now; a request that is cut off ends the address.
Validate(outcome, status) ==
  /\ Validating /\ Origin \notin DOMAIN rpki_by_origin /\ ~OutOfBudget
  /\ Requested(outcome)
  /\ LET found == IF outcome = "ok" THEN status ELSE None
     IN /\ rpki_by_origin' = Inserted(rpki_by_origin, Origin, found)
        /\ Validated({found})
  /\ info' = [info EXCEPT !.asns = IF outcome = "late" THEN <<>> ELSE Tail(@)]

\* There is no budget to validate it.
GiveUpOrigins ==
  /\ Validating /\ Origin \notin DOMAIN rpki_by_origin /\ OutOfBudget
  /\ report' = Exhausted
  /\ info' = [info EXCEPT !.asns = <<>>]
  /\ UNCHANGED <<todo, address, claims, claims_by_address, rpki_by_origin, expired>>

FileClaims ==
  /\ address # None /\ info.asns = <<>>
  /\ LET learnt == IF claims = {} THEN {Claim("routing_metadata", None)} ELSE claims
     IN claims_by_address' = Inserted(claims_by_address, address, learnt)
  /\ address' = None /\ info' = None /\ claims' = {}
  /\ UNCHANGED <<todo, rpki_by_origin, report, expired>>

\* No budget for the next address: no other is looked up.
GiveUpAddresses ==
  /\ address = None /\ todo # {} /\ OutOfBudget
  /\ report' = Exhausted
  /\ todo' = {}
  /\ UNCHANGED <<address, info, claims, claims_by_address, rpki_by_origin, expired>>

Expire ==
  /\ ~expired /\ expired' = TRUE
  /\ UNCHANGED <<todo, address, info, claims, claims_by_address, rpki_by_origin, report>>

Fields(claim_set) == {c.field : c \in claim_set}

\* What a hop's dossier says at the end; the scope of one special-purpose
\* responder is noted, the first by address.
Enriched(hop) ==
  LET responders == Responders(hop.probes)
      special == responders \ Public
      all == hop.claims \cup
             UNION {claims_by_address[r] : r \in responders \cap DOMAIN claims_by_address} \cup
             (IF special = {} THEN {}
                ELSE {Claim("address_scope", CHOOSE r \in special : TRUE)})
  IN [hop EXCEPT !.claims = all, !.unresolved = @ \ Fields(all)]

ApplyClaims ==
  /\ phase = "enrich" /\ address = None /\ todo = {}
  /\ phase' = "enriched"
  /\ records' = [i \in DOMAIN records |->
                   IF records[i].record = "hop"
                     THEN [records[i] EXCEPT !.hop = Enriched(@)] ELSE records[i]]
  /\ UNCHANGED <<plan, ttl, observations, sequence, reliability, destination_reached,
                 duration_exhausted, network, elapsed, enrichment>>

\* `outcome` of a request: answered, refused or malformed, cut off.
Outcome == {"ok", "failed", "late"}

LookUps ==
  \/ \E a \in todo, o \in Outcome, n \in NetworkInfo : LookUp(a, o, n)
  \/ \E o \in Outcome, s \in RpkiStatus : Validate(o, s)
  \/ Recall \/ GiveUpOrigins \/ FileClaims \/ GiveUpAddresses

Enrich == ApplyClaims \/ (phase = "enrich" /\ LookUps /\ UNCHANGED vars)

EnrichmentNext ==
  \/ Next /\ UNCHANGED enrichment
  \/ StartEnrichment
  \/ Enrich
  \/ phase = "enrich" /\ Expire /\ UNCHANGED vars

EnrichmentSpec ==
  /\ EnrichmentInit /\ [][EnrichmentNext]_allVars
  /\ WF_allVars(Trace /\ UNCHANGED enrichment)
  /\ WF_allVars(Enrich)

-----------------------------------------------------------------------------
\* An enriched stream accounts for what it lacks: requests stay within their
\* budget, a public responder nothing is said of was given up for a budget the
\* report names, an origin without a verdict for that or a failed request, and
\* no dossier lists a field as unresolved that it resolves.
EnrichmentAccountsForGaps ==
  LET gave_up == report.lookup_budget_exhausted \/ report.duration_exhausted
      asns_of(a) == {c.value : c \in {d \in claims_by_address[a] : d.field = "origin_asn"}}
      verdict(a, asn) ==
        \E c \in claims_by_address[a] : c.field = "rpki_state" /\ c.value[1] = asn
  IN /\ report.lookups_attempted <= MaxLookups
     /\ report.lookups_attempted = report.lookups_succeeded + report.lookups_failed
     /\ phase = "enriched" =>
          /\ \A a \in Answered \cap Public : a \in DOMAIN claims_by_address \/ gave_up
          /\ \A a \in DOMAIN claims_by_address : \A asns \in asns_of(a) :
               \A asn \in Range(asns) :
                 verdict(a, asn) \/ gave_up \/ report.lookups_failed > 0
          /\ \A hop \in Range(Hops(records)) : hop.unresolved \cap Fields(hop.claims) = {}

\* Both commands end: a trace, because every wait has a timeout, and an
\* enrichment, because every request has one.
CommandsEnd == RunEnds /\ (phase = "enrich" ~> phase = "enriched")
=============================================================================
