-------------------------------- MODULE Slo ---------------------------------
(***************************************************************************)
(* The SLO compliance report (server/slo.go, registry/slo_sqlite.go).  The *)
(* handler reads every SLO row once, then asks the inference log one query *)
(* per configured model and one for all models; the gateway goes on        *)
(* recording events, and a configuration apply may replace rows, between   *)
(* the queries.                                                            *)
(***************************************************************************)
EXTENDS Naturals, Sequences, FiniteSets

CONSTANTS
    SloModels,    \* models that have traffic
    Global,       \* the model id "*"
    SloRows,      \* contracts: [ttft, num, den], target compliance num/den
    Default,      \* sloDefaultTTFTMs and sloDefaultTargetCompliance
    Latencies,    \* recorded latencies; 0 is "not recorded"
    SloMin,       \* sloMinRequests
    MaxSloEvents, \* bound on the inference log
    MaxApplies,   \* bound on the SLO rows written
    NoSlo         \* no row / no report yet

ASSUME SloAssumption ==
    /\ SloMin \in Nat \ {0} /\ MaxSloEvents \in Nat /\ MaxApplies \in Nat
    /\ Latencies \subseteq Nat
    /\ Global \notin SloModels /\ NoSlo \notin SloRows \cup [count : Nat, ok : Nat]
    /\ SloRows \cup {Default} \subseteq [ttft : Nat, num : Nat, den : Nat \ {0}]

VARIABLES
    sloCfg,    \* slo_configs: model id or Global -> row or NoSlo
    applies,   \* rows written so far
    sloLog,    \* inference_audit_log within the window, oldest first
    sreq       \* the request being served

sloVars == <<sloCfg, applies, sloLog, sreq>>

IdleSlo == [at |-> "idle", cfg |-> [m \in SloModels \cup {Global} |-> NoSlo],
            start |-> 0, todo |-> {}, stats |-> [m \in SloModels |-> NoSlo]]

SloInit ==
    /\ sloCfg = [m \in SloModels \cup {Global} |-> NoSlo]
    /\ applies = 0
    /\ sloLog = <<>>
    /\ sreq = IdleSlo

-----------------------------------------------------------------------------
(* resolveSLO: explicit entry > global "*" entry > hard-coded defaults. *)
resolveSLO(cfg, m) ==
    IF cfg[m] # NoSlo THEN cfg[m]
    ELSE IF cfg[Global] # NoSlo THEN cfg[Global]
    ELSE Default

(* GetSLOComplianceByModel for one model: requests, and those with           *)
(* 0 < latency < threshold.  A model without requests has no group.          *)
GetSLOComplianceByModel(log, m, threshold) ==
    LET mine == {i \in DOMAIN log : log[i].model = m}
        ok   == {i \in mine : log[i].lat > 0 /\ log[i].lat < threshold}
    IN  IF mine = {} THEN NoSlo
        ELSE [count |-> Cardinality(mine), ok |-> Cardinality(ok)]

(* The status of one entry; its target comes from the rows read at the start. *)
SloStatus(cfg, m, stat) ==
    IF stat.count < SloMin THEN "insufficient_data"
    ELSE IF stat.ok * resolveSLO(cfg, m).den >= resolveSLO(cfg, m).num * stat.count
         THEN "met"
    ELSE "breached"

-----------------------------------------------------------------------------
(* UpsertSLOConfig, from the SLO section of a cluster configuration. *)
UpsertSLOConfig(m, row) ==
    /\ applies < MaxApplies
    /\ applies' = applies + 1
    /\ sloCfg' = [sloCfg EXCEPT ![m] = row]
    /\ UNCHANGED <<sloLog, sreq>>

(* The gateway records an event whose timestamp lies in the window. *)
SloEvent(m, lat) ==
    /\ Len(sloLog) < MaxSloEvents
    /\ sloLog' = Append(sloLog, [model |-> m, lat |-> lat])
    /\ UNCHANGED <<sloCfg, applies, sreq>>

(* GetAllSLOConfigs, and the models that have a query of their own. *)
GetAllSLOConfigs ==
    /\ sreq.at \in {"idle", "done"}
    /\ sreq' = [IdleSlo EXCEPT !.at = "explicit", !.cfg = sloCfg, !.start = Len(sloLog),
                               !.todo = {m \in SloModels : sloCfg[m] # NoSlo}]
    /\ UNCHANGED <<sloCfg, applies, sloLog>>

(* With ?model_id= : one query with that model's threshold. *)
SloSingle(m) ==
    /\ sreq.at = "explicit" /\ sreq.todo = {x \in SloModels : sreq.cfg[x] # NoSlo}
    /\ sreq' = [sreq EXCEPT !.at = "done", !.todo = {},
           !.stats[m] = GetSLOComplianceByModel(sloLog, m, resolveSLO(sreq.cfg, m).ttft)]
    /\ UNCHANGED <<sloCfg, applies, sloLog>>

(* One query for one explicitly configured model, in map order. *)
SloExplicit(m) ==
    /\ sreq.at = "explicit" /\ m \in sreq.todo
    /\ sreq' = [sreq EXCEPT !.todo = @ \ {m},
           !.stats[m] = GetSLOComplianceByModel(sloLog, m, sreq.cfg[m].ttft)]
    /\ UNCHANGED <<sloCfg, applies, sloLog>>

(* Mutant: the all-models query overwrites what the explicit ones found. *)
handleSLOComplianceOverwrites ==
    /\ sreq.at = "explicit" /\ sreq.todo = {}
    /\ LET threshold == IF sreq.cfg[Global] # NoSlo THEN sreq.cfg[Global].ttft ELSE Default.ttft
       IN  sreq' = [sreq EXCEPT !.at = "done",
               !.stats = [m \in SloModels |-> GetSLOComplianceByModel(sloLog, m, threshold)]]
    /\ UNCHANGED <<sloCfg, applies, sloLog>>

(* The query over all models with the global threshold; a model already      *)
(* captured keeps its entry.  The response is built from what was read.      *)
handleSLOCompliance ==
    /\ sreq.at = "explicit" /\ sreq.todo = {}
    /\ LET threshold == IF sreq.cfg[Global] # NoSlo THEN sreq.cfg[Global].ttft ELSE Default.ttft
       IN  sreq' = [sreq EXCEPT !.at = "done",
               !.stats = [m \in SloModels |->
                    IF sreq.stats[m] # NoSlo THEN sreq.stats[m]
                    ELSE GetSLOComplianceByModel(sloLog, m, threshold)]]
    /\ UNCHANGED <<sloCfg, applies, sloLog>>

SloNext ==
    \/ \E m \in SloModels \cup {Global}, row \in SloRows : UpsertSLOConfig(m, row)
    \/ \E m \in SloModels, lat \in Latencies : SloEvent(m, lat)
    \/ GetAllSLOConfigs
    \/ \E m \in SloModels : SloSingle(m) \/ SloExplicit(m)
    \/ handleSLOCompliance

SloSpec == SloInit /\ [][SloNext]_sloVars

-----------------------------------------------------------------------------
(* What the response says of a model is what the same request filtered to    *)
(* that model would have said at some moment while this one was served,      *)
(* under the contracts in force when it started: the per-threshold queries   *)
(* and the all-models query neither mix thresholds nor lose a model.  The    *)
(* exception is a configured model whose own query found nothing: an event   *)
(* recorded after it is counted by the all-models query, with the GLOBAL     *)
(* threshold, under the model's own contract.                                *)
SloEntryHolds ==
    sreq.at = "done" =>
        \A m \in SloModels :
            /\ sreq.stats[m] # NoSlo
            /\ sreq.cfg[m] # NoSlo => \E i \in 1..sreq.start : sloLog[i].model = m
            =>
            \E n \in sreq.start .. Len(sloLog) :
                LET seen == [i \in 1..n |-> sloLog[i]]
                    own  == IF sreq.cfg[m] # NoSlo THEN sreq.cfg[m]
                            ELSE IF sreq.cfg[Global] # NoSlo THEN sreq.cfg[Global] ELSE Default
                    mine == {i \in 1..n : seen[i].model = m}
                    ok   == {i \in mine : 0 < seen[i].lat /\ seen[i].lat < own.ttft}
                IN  /\ sreq.stats[m] = [count |-> Cardinality(mine), ok |-> Cardinality(ok)]
                    /\ SloStatus(sreq.cfg, m, sreq.stats[m]) = "met"
                         <=> /\ Cardinality(mine) >= SloMin
                             /\ Cardinality(ok) * own.den >= own.num * Cardinality(mine)
=============================================================================
