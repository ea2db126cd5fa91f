--------------------------- MODULE QuestionPlanner ---------------------------
(***************************************************************************)
(* planQuery of cmd/agent-wayfinder/query/planning.go: which planners the  *)
(* configuration enables, what each of them is asked, and what the spend   *)
(* ledger and the planner metrics keep of it.                              *)
(*                                                                         *)
(* A question that a rule knows needs no planner.  Any other goes to       *)
(* Ollama, Claude and Copilot in turn; a paid request reserves an amount   *)
(* first and settles what it used whenever that is reported.               *)
(***************************************************************************)
EXTENDS SeedRanking, TLC

CONSTANTS
  Responses,     (* what a planner may reply: [confident, intent, entities] *)
  Budget,        (* the amount a paid request asks the ledger for           *)
  MinimumGrant   (* MinimumGrant[p]: the least amount that p can work with  *)

ASSUME PlannerAssumption ==
  /\ Budget \in Nat \ {0} /\ \A p \in {"claude", "copilot"} : MinimumGrant[p] \in 1..Budget
  /\ \A response \in Responses : response.entities \in Seq(Entities)

VARIABLES
  run,        (* the invocation                                            *)
  at,         (* where the command is                                      *)
  plan,       (* the plan of a question                                    *)
  planning,   (* the method, the warnings and the planner metrics          *)
  ledger      (* the reservations of this command and what became of them  *)

plannerVars == <<at, plan, planning, ledger>>

NoPlan == [by |-> "none"]

Paid == {"claude", "copilot"}

NoRequest == [state |-> "none", amount |-> 0, spent |-> 0, reported |-> 0, known |-> FALSE,
              attempts |-> 0]

PlannerInit ==
  /\ plan = NoPlan
  /\ planning = [method |-> "terms", warnings |-> {}, metrics |-> [p \in Paid |-> "none"],
                 error |-> "none"]
  /\ ledger = [p \in Paid |-> NoRequest]

-----------------------------------------------------------------------------
(* Configuration                                                           *)
(*                                                                         *)
(* Layers are read in turn: the user's file, the workspace's file, the     *)
(* environment, the flags; the last that says something wins.              *)

Layered(layers) ==
  LET said == {i \in DOMAIN layers : layers[i] # "unset"}
  IN IF said = {} THEN "unset" ELSE layers[Max(said)]

(* The files alone name a provider.                                        *)
ReadProvider(c) == Layered(<<c.user.provider, c.workspace.provider>>)

(* A setting is unset, valid, out of range, or malformed (an unknown key   *)
(* of a file is).  The range is checked after the environment and again    *)
(* after the flags.                                                        *)
ConfigurationBroken(c) ==
  LET layers == <<c.user.setting, c.workspace.setting, c.environment.setting, c.flags.setting>>
  IN \/ "malformed" \in ToSet(layers)
     \/ Layered(SubSeq(layers, 1, 3)) = "range"
     \/ Layered(layers) = "range"

(* Ollama has neither an environment variable nor a flag.                  *)
ResolveEnabled(c, p) ==
  IF p = "ollama" THEN ReadProvider(c) = p
  ELSE LET switch == Layered(<<c.environment.enabled[p], c.flags.enabled[p]>>)
       IN IF switch = "unset" THEN ReadProvider(c) = p ELSE switch = "true"

(* A provider named in a file overrules environment and flags.             *)
Enabled(c, p) ==
  IF ReadProvider(c) \in {"unset", ""} THEN ResolveEnabled(c, p) ELSE ReadProvider(c) = p

(* The default model, named by no layer, may be replaced by the automatic  *)
(* one; a reduced grant forbids it.                                        *)
UseAutomaticFallback(c, amount) == c.model = "default" /\ amount = Budget

-----------------------------------------------------------------------------
(* planQuery                                                               *)

EndsWith(error) ==
  at' = "done" /\ planning' = [planning EXCEPT !.error = error]

(* Every configuration is read before anything else, for plain terms too.  *)
Analyze ==
  /\ at = "start" /\ run.command = "query"
  /\ IF ConfigurationBroken(run.configuration)
     THEN EndsWith("configuration") /\ UNCHANGED plan
     ELSE IF run.question = {}
     THEN at' = "open" /\ UNCHANGED <<plan, planning>>
     ELSE LET q == CHOOSE x \in run.question : TRUE
          IN /\ plan' = AnalyzeQuestion(q)
             /\ at' = IF plan'.intent = "unknown" THEN "ollama" ELSE "open"
             /\ planning' = [planning EXCEPT !.method =
                               IF plan'.intent = "unknown" THEN "fallback" ELSE "deterministic"]
  /\ UNCHANGED ledger

(* Only a confident reply of the local planner counts; a failure leaves no *)
(* warning.                                                                *)
RunOllama ==
  /\ at = "ollama" /\ at' = "claude"
  /\ \/ UNCHANGED <<plan, planning>>
     \/ /\ Enabled(run.configuration, "ollama")
        /\ \E response \in Responses :
             /\ response.confident /\ validatePlannerResponse(response)
             /\ plan' = copilotQueryPlan(response, "ollama")
             /\ planning' = [planning EXCEPT !.method = "ollama"]
  /\ UNCHANGED ledger

-----------------------------------------------------------------------------
(* Paid requests                                                           *)

(* Only a plan of Ollama spares the paid planners.                         *)
Asks(p) == Enabled(run.configuration, p) /\ planning.method # "ollama"

(* How a process of the planner ends.  Claude tells its cost in the reply  *)
(* alone, Copilot in a file that may be there however the process ended.   *)
Outcomes(p) ==
  IF p = "claude" THEN {"unavailable", "timeout", "budget", "model_unavailable", "fallback", "answered"}
  ELSE {"timeout", "model_unavailable", "fallback", "answered"}

Attempts(p, amount) ==
  {a \in [outcome : Outcomes(p), used : 0..amount, known : BOOLEAN] :
     a.known /\ p = "claude" => a.outcome \in {"fallback", "answered"}}

(* Once, and a second time with the automatic model; only the last attempt *)
(* is reported.                                                            *)
Requests(p, amount) ==
  LET retries(a) == /\ p = "copilot" /\ a.outcome = "model_unavailable"
                    /\ UseAutomaticFallback(run.configuration, amount)
      once == {a \in Attempts(p, amount) : ~retries(a)}
      spendable == {a.used : a \in {b \in Attempts(p, amount) : retries(b)}}
  IN {[last |-> a, spent |-> a.used, attempts |-> 1] : a \in once}
       \cup {[last |-> b, spent |-> u + b.used, attempts |-> 2] : b \in Attempts(p, amount), u \in spendable}

(* Variant: a request that failed is not settled.                          *)
SettleOnSuccess(attempt) == attempt.known /\ attempt.outcome = "answered"

(* The use of a request is settled whenever it is known.                   *)
Settles(attempt) == attempt.known

Charge(p, amount, r) ==
  ledger' = [ledger EXCEPT ![p] =
               [state |-> IF Settles(r.last) THEN "settled" ELSE "reserved",
                amount |-> IF Settles(r.last) THEN r.last.used ELSE amount,
                spent |-> r.spent, reported |-> r.last.used, known |-> r.last.known,
                attempts |-> r.attempts]]

(* Copilot's metric tells a timeout from the rest only.                    *)
MetricOutcome(p, outcome) ==
  IF outcome = "answered" \/ (p = "copilot" /\ outcome # "timeout") THEN "fallback" ELSE outcome

Fallback(p, outcome) ==
  /\ planning' = [planning EXCEPT !.warnings = @ \cup {<<p, "unavailable">>},
                                  !.metrics[p] = MetricOutcome(p, outcome)]
  /\ UNCHANGED plan

applyPlannedQuestion(response, p) ==
  /\ plan' = copilotQueryPlan(response, p)
  /\ planning' = [planning EXCEPT !.method = p, !.metrics[p] = "success"]

RequestPlan(p) ==
  \E amount \in MinimumGrant[p]..Budget : \E r \in Requests(p, amount) :
    /\ Charge(p, amount, r)
    /\ \/ r.last.outcome # "answered" /\ Fallback(p, r.last.outcome)
       \/ /\ r.last.outcome = "answered"
          /\ \E response \in Responses :
               IF validatePlannerResponse(response) THEN applyPlannedQuestion(response, p)
               ELSE Fallback(p, "answered")

(* The ledger has no room for the least amount.                            *)
SpendingRefused(p) ==
  /\ ledger' = [ledger EXCEPT ![p].state = "refused"]
  /\ planning' = [planning EXCEPT !.warnings = @ \cup {<<p, "spending_limit">>}]
  /\ UNCHANGED plan

(* A settlement that fails ends the command, and its metrics are lost.     *)
SettlementFails(p) ==
  /\ at = p /\ Asks(p)
  /\ \E amount \in MinimumGrant[p]..Budget :
       ledger' = [ledger EXCEPT ![p] = [NoRequest EXCEPT !.state = "reserved", !.amount = amount]]
  /\ EndsWith("settlement")
  /\ UNCHANGED plan

RunClaude ==
  /\ at = "claude" /\ at' = "copilot"
  /\ IF Asks("claude") THEN RequestPlan("claude") \/ SpendingRefused("claude")
     ELSE UNCHANGED <<plan, planning, ledger>>

RunCopilot ==
  /\ at = "copilot" /\ at' = "open"
  /\ IF Asks("copilot") THEN RequestPlan("copilot") \/ SpendingRefused("copilot")
     ELSE UNCHANGED <<plan, planning, ledger>>

Planning ==
  /\ Analyze \/ RunOllama \/ RunClaude \/ RunCopilot \/ \E p \in Paid : SettlementFails(p)
  /\ UNCHANGED run

-----------------------------------------------------------------------------
(* Properties                                                              *)

(* What the command says of its planners is true: the method names the     *)
(* planner whose plan is used and that planner is not reported as          *)
(* unavailable or limited; a metric is kept of every request that was      *)
(* made, and it says success for one that left no warning.                 *)
PlannersReported ==
  /\ planning.method \in Paid \cup {"ollama"} => plan.by = planning.method
  /\ planning.method \in {"deterministic", "fallback"} => plan.by = "rules"
  /\ planning.error = "none" =>
       \A p \in Paid :
         LET told == {w \in planning.warnings : w[1] = p}
         IN /\ planning.method = p => told = {} /\ ledger[p].state \in {"reserved", "settled"}
            /\ ledger[p].state = "refused" <=> <<p, "spending_limit">> \in told
            /\ planning.metrics[p] # "none" <=> ledger[p].attempts > 0
            /\ planning.metrics[p] = "success" => told = {}
            /\ ledger[p].attempts > 0 /\ told = {} => planning.metrics[p] = "success"

(* Money is spent only on a question no rule knows, and only on a planner  *)
(* the files name as the provider or, when they name none, one that a flag *)
(* or else the environment turns on; never with a plan of Ollama at hand.  *)
PaidOnlyIfChosen ==
  \A p \in Paid : ledger[p].state # "none" =>
    LET c == run.configuration
        files == IF c.workspace.provider = "unset" THEN c.user.provider ELSE c.workspace.provider
    IN /\ \E q \in run.question : q.rules = {}
       /\ files \in {p, "", "unset"}
       /\ files # p => \/ c.flags.enabled[p] = "true"
                       \/ c.flags.enabled[p] = "unset" /\ c.environment.enabled[p] = "true"
       /\ planning.method # "ollama"

(* The ledger covers what a request spent, and holds exactly that once the *)
(* planner has told it.  A retry with the automatic model is the           *)
(* exception: the ledger never learns of the first attempt.                *)
LedgerCoversSpend ==
  \A p \in Paid : ledger[p].state \in {"reserved", "settled"} =>
    /\ ledger[p].attempts < 2 => ledger[p].amount >= ledger[p].spent
    /\ ledger[p].known => ledger[p].state = "settled" /\ ledger[p].amount = ledger[p].reported

(* Who planned, who was asked and who was paid agree with each other and   *)
(* with the configuration.  (planQuery, planning.go:34)                    *)
PlannersAccountable == PlannersReported /\ PaidOnlyIfChosen /\ LedgerCoversSpend
=============================================================================
