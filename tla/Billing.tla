------------------------------ MODULE Billing ------------------------------
(***************************************************************************)
(* Billing: the reports that registry/billing_*_sqlite.go compute from the *)
(* inference log and the price list, and what server/billing*.go make of   *)
(* them.                                                                   *)
(*                                                                         *)
(* A tenant is [org, team], written "<org>/<team>" in the log. An instant  *)
(* is <<second, d1, d2>>, d1 d2 the decimal fraction; the store compares   *)
(* the RFC 3339 text of instants, in which trailing zeros are dropped.     *)
(* Every single query is atomic; the billing report is one query for its   *)
(* lines and one for its SLA figures, the organisation report one to find  *)
(* the teams and one per team. One report is under way at a time: reports  *)
(* only read, and do not meet. The chain over the log is module Ledger.    *)
(* Budgets, averages and page layout are left out. No handler writes       *)
(* prices: they enter through the store.                                   *)
(***************************************************************************)
EXTENDS Integers, FiniteSets, FiniteSetsExt, Functions

CONSTANTS
    Events,       \* inference events: [id, subject, tenant, model, in, out, lat, at]
    BTenants,     \* tenants, without the one erasure leaves behind
    OrgLike,      \* <<org, tenant>>: the pairs for which SQL's LIKE matches "<org>/%"
    OrgPrefixes,  \* pairs of organisation ids of which the first starts the second
    Prices,       \* price rows: [model, from, in, out]
    Windows,      \* [start, end] of a report; [start] is also a month's start
    TopModels     \* the 10 models an adoption series keeps

\* Instants, as the log and the price list have them.
Instants == Nat \X (0..9) \X (0..9)

ASSUME BillingAssumption ==
    /\ TopModels \in Nat
    \* At least the organisation's own teams match, and nothing without a slash does. Letters
    \* match in either case, and '_' and '%' in the id match other characters.
    /\ \A t \in BTenants : t.team # "" => <<t.org, t>> \in OrgLike
    /\ \A x \in OrgLike : x[2] \in BTenants /\ x[2].team # ""
    /\ Events \subseteq [id : {e.id : e \in Events}, subject : {e.subject : e \in Events}, tenant : BTenants,
                         model : {e.model : e \in Events}, in : Nat, out : Nat, lat : Nat, at : Instants]
    /\ Prices \subseteq [model : {p.model : p \in Prices}, from : Instants, in : Nat, out : Nat]

Erased == [org |-> "ERASED", team |-> ""]
BIdle == [at |-> "idle"]
Models == {e.model : e \in Events} \cup {p.model : p \in Prices}

VARIABLES
    events,   \* inference_audit_log
    prices,   \* model_pricing
    report    \* a report under way

billVars == <<events, prices, report>>

BillTypeOK ==
    /\ \A e \in events : e.tenant \in BTenants \cup {Erased}
    /\ prices \subseteq Prices
    /\ report.at \in {"idle", "team", "done", "sla", "sent"}

(***************************************************************************)
(* Time as the store sees it                                               *)
(***************************************************************************)

Zed == 10   \* 'Z' sorts after every digit, '.' before them
Dot == -1

\* fmtTime: "05Z", "05.5Z", "05.55Z", character by character after the second.
fmtTime(t) ==
    <<t[1],
      IF t[2] = 0 /\ t[3] = 0 THEN Zed ELSE Dot,
      IF t[2] = 0 /\ t[3] = 0 THEN 0 ELSE t[2],
      IF t[3] = 0 THEN Zed ELSE t[3]>>

TextLeq(s, t) ==
    \/ s = t
    \/ \E i \in DOMAIN s : s[i] < t[i] /\ \A j \in 1 .. i - 1 : s[j] = t[j]

Leq(a, b) == TextLeq(fmtTime(a), fmtTime(b))
Between(t, w) == Leq(w.start, t) /\ Leq(t, w.end)

(***************************************************************************)
(* Queries                                                                 *)
(***************************************************************************)

SumOver(S, f(_)) == FoldFunction(+, 0, [x \in S |-> f(x)])
TokensOf(S) == SumOver(S, LAMBDA e : e.in + e.out)

\* GetBillingReport: one row per tenant and model.
GetBillingReport(w) ==
    LET hit == {e \in events : Between(e.at, w)} IN
    {[tenant |-> g[1], model |-> g[2],
      requests |-> Cardinality({e \in hit : <<e.tenant, e.model>> = g}),
      tokens |-> TokensOf({e \in hit : <<e.tenant, e.model>> = g})]
        : g \in {<<e.tenant, e.model>> : e \in hit}}

ReportTotal(rows) == SumOver(rows, LAMBDA r : r.tokens)

\* The rows of model_pricing in force at t: the latest per model.
currentPricing(t) ==
    {p \in prices : /\ Leq(p.from, t)
                    /\ \A q \in prices : q.model = p.model /\ Leq(q.from, t) => Leq(q.from, p.from)}

\* GetTeamBillingReport: the LEFT JOIN yields a row per event and price in force, and
\* one with price 0 for an event without.
joined(hit, t) ==
    {ep \in hit \X currentPricing(t) : ep[2].model = ep[1].model}
    \cup {<<e, [in |-> 0, out |-> 0]>> : e \in {x \in hit : \A p \in currentPricing(t) : p.model # x.model}}

GetTeamBillingReport(tenant, w) ==
    LET rows == joined({e \in events : e.tenant = tenant /\ Between(e.at, w)}, w.end) IN
    [requests |-> Cardinality(rows),
     tokens |-> SumOver(rows, LAMBDA r : r[1].in + r[1].out),
     cost |-> SumOver(rows, LAMBDA r : r[1].in * r[2].in + r[1].out * r[2].out)]

\* GetBillingForecast at instant w.end of the month that starts at w.start: what a
\* tenant has cost so far.
GetBillingForecast(w) ==
    LET hit == {e \in events : Between(e.at, w)}
        rows == joined(hit, w.end)
    IN [t \in {e.tenant : e \in hit} |->
            SumOver({r \in rows : r[1].tenant = t}, LAMBDA r : r[1].in * r[2].in + r[1].out * r[2].out)]

\* GetModelAdoptionSeries: requests per model and day from `since` on; a second stands
\* for a day. Only the most requested models are kept.
GetModelAdoptionSeries(since) ==
    LET hit == {e \in events : Leq(since, e.at)}
        asked(m) == Cardinality({e \in hit : e.model = m})
        ms == {e.model : e \in hit}
    IN {kept \in SUBSET ms : /\ Cardinality(kept) = IF Cardinality(ms) < TopModels THEN Cardinality(ms) ELSE TopModels
                             /\ \A m \in kept, x \in ms \ kept : asked(m) >= asked(x)}

AdoptionBuckets(since, m) ==
    LET hit == {e \in events : Leq(since, e.at) /\ e.model = m} IN
    [d \in {e.at[1] : e \in hit} |-> Cardinality({e \in hit : e.at[1] = d})]

\* Mutant: a tenant's line holds the last of its models, not their sum.
writeBillingXLSXLast(rows) ==
    LET line(t) == CHOOSE r \in rows : r.tenant = t IN
    [summary |-> SumOver({r.tenant : r \in rows}, LAMBDA t : line(t).tokens),
     byModel |-> SumOver({r.model : r \in rows}, LAMBDA m : SumOver({r \in rows : r.model = m}, LAMBDA r : r.tokens))]

\* writeBillingXLSX: the Summary sheet has a line per tenant, By Model one per model.
writeBillingXLSX(rows) ==
    [summary |-> SumOver({r.tenant : r \in rows}, LAMBDA t : SumOver({r \in rows : r.tenant = t}, LAMBDA r : r.tokens)),
     byModel |-> SumOver({r.model : r \in rows}, LAMBDA m : SumOver({r \in rows : r.model = m}, LAMBDA r : r.tokens))]

\* writeBillingPDF: a line per tenant and model, then the report's totals.
writeBillingPDF(rows) ==
    [lines |-> {<<r.tenant, r.model, r.requests, r.tokens>> : r \in rows},
     total |-> <<SumOver(rows, LAMBDA r : r.requests), ReportTotal(rows)>>]

\* GetSLAComplianceByTenant: the requests under the threshold among those whose latency
\* was recorded, for the tenants that have one.
GetSLAComplianceByTenant(w, threshold) ==
    LET timed(t) == {e \in events : e.tenant = t /\ Between(e.at, w) /\ e.lat > 0} IN
    [t \in {x \in BTenants \cup {Erased} : timed(x) # {}} |->
        [compliant |-> Cardinality({e \in timed(t) : e.lat < threshold}), of |-> Cardinality(timed(t))]]

\* The requests of a tenant whose latency was recorded.
TimedOf(t, w) == Cardinality({e \in events : e.tenant = t /\ Between(e.at, w) /\ e.lat > 0})

\* handleBillingReport: the lines of one tenant, or of all. `timed` and `erased` are history.
handleBillingReport(w, tenants) ==
    /\ report = BIdle
    /\ report' = [at |-> "sla", w |-> w, lines |-> {r \in GetBillingReport(w) : r.tenant \in tenants},
                  timed |-> [t \in BTenants \cup {Erased} |-> TimedOf(t, w)], erased |-> FALSE]
    /\ UNCHANGED <<events, prices>>

\* Its second query; the figures are not filtered by tenant.
SlaOfReport(threshold) ==
    /\ report.at = "sla"
    /\ report' = [at |-> "sent", w |-> report.w, lines |-> report.lines, timed |-> report.timed,
                  erased |-> report.erased, sla |-> GetSLAComplianceByTenant(report.w, threshold)]
    /\ UNCHANGED <<events, prices>>

\* handleBillingSummary: totals and the number of active tenants.
handleBillingSummary(w) ==
    LET rows == GetBillingReport(w) IN
    [requests |-> SumOver(rows, LAMBDA r : r.requests), tokens |-> ReportTotal(rows),
     active |-> Cardinality({r.tenant : r \in rows})]

(***************************************************************************)
(* The organisation report                                                 *)
(***************************************************************************)

\* Mutant: the pattern is org% instead of org/%.
OrgTeamsByPrefix(org, w) ==
    {e.tenant : e \in {x \in events : (x.tenant.org = org \/ <<org, x.tenant.org>> \in OrgPrefixes) /\ Between(x.at, w)}}

\* The tenants that match "<org>/%".
OrgTeams(org, w) ==
    {e.tenant : e \in {x \in events : <<org, x.tenant>> \in OrgLike /\ Between(x.at, w)}}

OrgTotal(org, w) ==
    TokensOf({e \in events : <<org, e.tenant>> \in OrgLike /\ Between(e.at, w)})

GetOrgBillingReport(org, w) ==
    /\ report = BIdle
    /\ report' = [at |-> "team", org |-> org, w |-> w, left |-> OrgTeams(org, w), total |-> 0,
                  low |-> OrgTotal(org, w), erased |-> FALSE]
    /\ UNCHANGED <<events, prices>>

\* One more of the teams found at the start; the answer goes out after the last.
TeamOfOrgReport ==
    /\ report.at = "team"
    /\ \/ \E t \in report.left :
            report' = [report EXCEPT !.left = @ \ {t}, !.total = @ + GetTeamBillingReport(t, report.w).tokens]
       \/ report.left = {} /\ report' = [report EXCEPT !.at = "done"]
    /\ UNCHANGED <<events, prices>>

\* A reply goes out; a billing report's without figures if none were asked for, or their
\* query failed.
ReportSent ==
    /\ report.at \in {"done", "sla", "sent"}
    /\ report' = BIdle
    /\ UNCHANGED <<events, prices>>

(***************************************************************************)
(* Writers                                                                 *)
(***************************************************************************)

\* The log takes events whenever the gateway delivers them, old ones late.
RecordInferenceEvent(e) ==
    /\ \A x \in events : x.id # e.id
    /\ events' = events \cup {e}
    /\ UNCHANGED <<prices, report>>

EraseSubjectEvents(s) ==
    /\ \E e \in events : e.subject = s /\ e.tenant # Erased
    /\ events' = {IF e.subject = s THEN [e EXCEPT !.tenant = Erased] ELSE e : e \in events}
    /\ report' = IF report = BIdle THEN report ELSE [report EXCEPT !.erased = TRUE]
    /\ UNCHANGED <<prices>>

\* A price for a moment that already has one replaces it.
UpsertModelPricing(p) ==
    prices' = {q \in prices : q.model # p.model \/ q.from # p.from} \cup {p}

SetPrice(p) ==
    /\ p \notin prices
    /\ UpsertModelPricing(p)
    /\ UNCHANGED <<events, report>>

BillInit ==
    /\ events = {} /\ prices = {}
    /\ report = BIdle

BillNext ==
    \/ \E e \in Events : RecordInferenceEvent(e) \/ EraseSubjectEvents(e.subject)
    \/ \E p \in Prices : SetPrice(p)
    \/ \E t \in BTenants, w \in Windows : GetOrgBillingReport(t.org, w)
    \/ \E w \in Windows : handleBillingReport(w, BTenants \cup {Erased}) \/ \E t \in BTenants : handleBillingReport(w, {t})
    \/ \E e \in Events : e.lat > 0 /\ SlaOfReport(e.lat)
    \/ TeamOfOrgReport \/ ReportSent

BillSpec == BillInit /\ [][BillNext]_billVars

(***************************************************************************)
(* Properties                                                              *)
(***************************************************************************)

\* An organisation's report is put together by one query per team while events keep
\* arriving: its total lies between what matched the organisation's pattern when it began
\* and what matches it now, unless an erasure moved events meanwhile. (The pattern may match
\* tenants of another organisation.)
OrgReportBracketed ==
    report.at = "done" /\ ~report.erased =>
        report.low <= report.total /\ report.total <= OrgTotal(report.org, report.w)

\* A billing report's lines and its SLA figures are read by two queries while events keep
\* arriving: unless an erasure moved events meanwhile, no line has more requests than the
\* log, and a tenant's timed requests are no fewer than those behind the lines and no more
\* than the log's. They may be more than the requests of its lines.
ReportBracketed ==
    report.at = "sent" /\ ~report.erased =>
        /\ \A r \in report.lines :
            r.requests <= Cardinality({e \in events : e.tenant = r.tenant /\ e.model = r.model /\ Between(e.at, report.w)})
        /\ \A t \in DOMAIN report.timed :
            /\ report.timed[t] > 0 => t \in DOMAIN report.sla /\ report.timed[t] <= report.sla[t].of
            /\ t \in DOMAIN report.sla => report.sla[t].of <= TimedOf(t, report.w)

\* Queries written apart give one answer: the totals of the billing report, of the team
\* reports, of both spreadsheet sheets, of the PDF and of the summary are the same, the
\* forecast's cost is the team report's, and the adoption buckets of the models kept add up
\* to their requests.
ReportsAgree ==
    report = BIdle /\ events # {} => \A w \in Windows :
        LET rows == GetBillingReport(w)
            tenants == {r.tenant : r \in rows}
            xlsx == writeBillingXLSX(rows)
        IN /\ ReportTotal(rows) = SumOver(tenants, LAMBDA t : GetTeamBillingReport(t, w).tokens)
           /\ xlsx.summary = ReportTotal(rows) /\ xlsx.byModel = ReportTotal(rows)
           /\ writeBillingPDF(rows).total = <<handleBillingSummary(w).requests, ReportTotal(rows)>>
           /\ handleBillingSummary(w).active = Cardinality(tenants)
           /\ DOMAIN GetBillingForecast(w) = tenants
           /\ \A t \in tenants : GetBillingForecast(w)[t] = GetTeamBillingReport(t, w).cost
           /\ \A kept \in GetModelAdoptionSeries(w.start), m \in Models :
                m \in kept => FoldFunction(+, 0, AdoptionBuckets(w.start, m))
                              >= SumOver({r \in rows : r.model = m}, LAMBDA r : r.requests)
=============================================================================
