--------------------------- MODULE PositionSizing ---------------------------
(***************************************************************************)
(* How much of what to hold: the DecisionGate turns the forecasts of a Run *)
(* into target weights, the ExecutionGate turns the weights, the account   *)
(* and the quotes into limit orders, and the orders fill as the broker     *)
(* likes, before the next Run reads the account again.                     *)
(*                                                                         *)
(* Weights and probabilities are fractions of Scale, as the code's are of  *)
(* a million; money and quantities are in their smallest units, a price is *)
(* the money for one unit of quantity, and every division is the code's.   *)
(* What else may block a plan is left open; how one order is sent, changed *)
(* and cancelled is PaperDispatch.                                         *)
(***************************************************************************)
EXTENDS Integers, Sequences, FiniteSetsExt

CONSTANTS
    AssetOrder,    \* Asset::EXECUTABLE, in its order
    DailyReset,    \* the leveraged funds among them
    Index,         \* [asset -> the index it follows]
    ForecastHorizons,  \* the horizons of a forecast, in trading days
    Scale,         \* WeightPpm::SCALE
    Neutral,       \* the forecast that abstains
    Missing,       \* no calibration that counts
    Grids,         \* forecasts a proposal may have: [asset, horizon -> raw]
    Calibrated,    \* [asset, horizon, raw -> [p, alpha] or Missing]
    Risk,          \* AssetRiskCalibration of the assets that have one
    Covariance,    \* PortfolioRiskModel::covariance_ppm_squared
    Policy,        \* DecisionPolicy
    Limits,        \* ExecutionPolicy and ExecutionGatePolicy
    Approvals,     \* maximum_notional of the manifests a Run may have
    Volume,        \* average daily dollar volume of the assets that have one
    QuoteSets,     \* [asset -> [bid, ask, last]] the market may show
    OpeningCash,   \* the account at the start
    Credit,        \* what the broker lends on top of the cash
    MaxRuns        \* bound: Runs of the day

Asset == {AssetOrder[i] : i \in 1 .. Len(AssetOrder)}

VARIABLES
    market,     \* the quotes
    account,    \* holding, cash and turnover, as the broker has them
    decision,   \* the committed DecisionContext of the Run
    plan,       \* the committed plan of the Run, with the account it saw
    orders,     \* orders the broker has open
    runs        \* Runs begun so far

sizingVars == <<market, account, decision, plan, orders, runs>>

None == [is |-> "none"]
NoOrder == [is |-> "no_order"]
------------------------------------------------------------------------------
(* Arithmetic.                                                             *)

\* Rust's integer division drops the fraction on both sides of zero.
Quotient(x, y) == IF x >= 0 THEN x \div y ELSE -((-x) \div y)

Smaller(x, y) == IF x <= y THEN x ELSE y
Larger(x, y) == IF x >= y THEN x ELSE y
Total(f, S) == SumFunctionOnSet(f, S)
Root(x) == CHOOSE r \in 0 .. x : r * r <= x /\ (r + 1) * (r + 1) > x
------------------------------------------------------------------------------
(* The DecisionGate: which assets, and how much of each.                   *)

Calibration(grid, a, h) ==
    IF grid[<<a, h>>] = Neutral THEN Missing ELSE Calibrated[<<a, h, grid[<<a, h>>]>>]

Half == Scale \div 2

Bullish(grid, a) ==
    {h \in ForecastHorizons : LET c == Calibration(grid, a, h)
                      IN  c # Missing /\ c.p >= Half + Policy.minEdge}
Bearish(grid, a) ==
    {h \in ForecastHorizons : LET c == Calibration(grid, a, h)
                      IN  c # Missing /\ c.p + Policy.minEdge <= Half}

\* Two horizons of the asset point in opposite directions.
ConflictedCounted(grid) ==
    {a \in Asset : /\ Bullish(grid, a) # {}
                   /\ {h \in Bearish(grid, a) : a \in DailyReset => h <= Policy.maxHoldingDays} # {}}
Conflicted(grid) == {a \in Asset : Bullish(grid, a) # {} /\ Bearish(grid, a) # {}}

\* A fund that is reset every day is not held longer than the risk model says.
Counted(grid, a) ==
    {h \in ForecastHorizons : /\ grid[<<a, h>>] # Neutral
                      /\ a \in DailyReset => h <= Policy.maxHoldingDays}

\* The mean over the counted horizons, each by its share of the policy.
Mean(f, H) ==
    Quotient(Total([h \in H |-> Quotient(f[h] * Policy.share[h], Scale)], H) * Scale,
             Total(Policy.share, H))

Edge(grid, a) ==
    Mean([h \in Counted(grid, a) |-> Calibration(grid, a, h).p - Half], Counted(grid, a))
Alpha(grid, a) ==
    Mean([h \in Counted(grid, a) |-> Calibration(grid, a, h).alpha], Counted(grid, a))

Eligible(grid) ==
    {a \in DOMAIN Risk \ Conflicted(grid) :
        /\ Total(Policy.share, Counted(grid, a)) > 0
        /\ \A h \in Counted(grid, a) : Calibration(grid, a, h) # Missing
        /\ Edge(grid, a) >= Policy.minEdge
        /\ Alpha(grid, a) > Risk[a].decay}

Strength(grid, a) ==
    Larger(0, Smaller(2 * Edge(grid, a) + Alpha(grid, a) - Risk[a].decay, Scale))

\* The most of an asset that its own risk and liquidity allow.
Cap(a) ==
    Min({(Policy.maxVolatility * Scale) \div Risk[a].vol, (Policy.maxBeta * Scale) \div Risk[a].beta,
         Risk[a].capital, Risk[a].liquidity})

Sized(grid) ==
    [a \in Asset |-> IF a \in Eligible(grid) THEN (Cap(a) * Strength(grid, a)) \div Scale ELSE 0]

Gross(w) == Total(w, Asset)

WithinGross(w) ==
    IF Gross(w) <= Policy.maxGross THEN w
    ELSE [a \in Asset |-> (w[a] * Policy.maxGross) \div Gross(w)]

Held(w) == {a \in Asset : w[a] > 0}

Variance(w) ==
    Total([p \in Held(w) \X Held(w) |->
              Quotient(w[p[1]] * w[p[2]] * Covariance[p], Scale * Scale)], Held(w) \X Held(w))

\* The three risks that add up over the assets.
Linear == {"beta", "shortfall", "gap"}
Measure(w, m) == Total([a \in Held(w) |-> w[a] * Risk[a][m]], Held(w)) \div Scale
Volatility(w) == Root(Variance(w))

Ceiling == [beta |-> Policy.maxBeta, shortfall |-> Policy.maxShortfall, gap |-> Policy.maxGap]

\* DecisionPolicy::validate, ExecutionPolicy::validate, validate_quote.
SizingAssumption ==
    /\ AssetOrder \in Seq(Asset) /\ Cardinality(Asset) = Len(AssetOrder)
    /\ DailyReset \subseteq Asset /\ DOMAIN Risk \subseteq Asset
    /\ ForecastHorizons \subseteq Nat /\ IsFiniteSet(ForecastHorizons)
    /\ Scale \in Nat \ {0} /\ OpeningCash \in Nat /\ Credit \in Nat /\ MaxRuns \in Nat
    /\ {Policy.minEdge, Policy.maxGross, Policy.maxVolatility, Policy.minConfidence} \subseteq Nat
    /\ \A h \in ForecastHorizons : Policy.share[h] \in Nat
    /\ Total(Policy.share, ForecastHorizons) = Scale
    /\ \A m \in Linear : Ceiling[m] \in Nat
    /\ \A a \in DOMAIN Risk :
          /\ Risk[a].vol \in Nat \ {0} /\ Risk[a].beta \in Nat \ {0}
          /\ {Risk[a].capital, Risk[a].liquidity, Risk[a].decay} \subseteq Nat
          /\ \A m \in Linear : Risk[a][m] \in Nat
    /\ \A a, b \in DOMAIN Risk :
          Covariance[<<a, b>>] \in Int /\ Covariance[<<a, b>>] = Covariance[<<b, a>>]
    /\ \A grid \in Grids, a \in Asset, h \in ForecastHorizons :
          LET c == Calibration(grid, a, h)
          IN  c # Missing => c.p \in Nat /\ c.alpha \in Int
    /\ Approvals \subseteq Nat
    /\ QuoteSets \subseteq [Asset -> [bid : Nat \ {0}, ask : Nat \ {0}, last : Nat]]
    /\ {Limits.bps, Limits.tick} \subseteq Nat \ {0} /\ Limits.protection \in 0 .. Limits.bps

\* What brings the worst of the four risks back to its limit.
VolatilityFactor(w) ==
    IF Volatility(w) > Policy.maxVolatility
    THEN (Policy.maxVolatility * Scale) \div Volatility(w) ELSE Scale
RiskFactor(w) ==
    Min({VolatilityFactor(w)} \cup {(Ceiling[m] * Scale) \div Measure(w, m)
                                      : m \in {n \in Linear : Measure(w, n) > Ceiling[n]}})

WithinRisk(w) == [a \in Asset |-> (w[a] * RiskFactor(w)) \div Scale]

Target(grid, confidence) ==
    IF confidence < Policy.minConfidence THEN [a \in Asset |-> 0]
    ELSE WithinRisk(WithinGross(Sized(grid)))

\* A variance below zero is an error of the task, not a decision.
Decidable(grid) ==
    /\ Variance(WithinGross(Sized(grid))) >= 0
    /\ Variance(WithinRisk(WithinGross(Sized(grid)))) >= 0

\* A conflict blocks the execution of the whole decision; the target leaves out
\* the assets in conflict all the same.
DecisionOf(grid, confidence) ==
    LET w == Target(grid, confidence)
    IN  [is |-> "decided", weights |-> w, blocked |-> Conflicted(grid) # {},
         shortfall |-> Measure(w, "shortfall"),
         against |-> {a \in Asset : Bearish(grid, a) # {}}]

Decisions ==
    {DecisionOf(grid, Policy.minConfidence - 1) : grid \in Grids}
    \cup {DecisionOf(grid, Policy.minConfidence) : grid \in {g \in Grids : Decidable(g)}}
------------------------------------------------------------------------------
(* The ExecutionGate: orders for the difference, and the limits on them.   *)

Value(a) == account.holding[a] * market[a].last
Equity == account.cash + Total([a \in Asset |-> Value(a)], Asset)
BuyingPower == Larger(0, account.cash + Credit)
TargetValue(a) == (Equity * decision.weights[a]) \div Scale
Wanted(a) == TargetValue(a) - Value(a)

Earlier(b, a) ==
    \E i, j \in 1 .. Len(AssetOrder) : i < j /\ AssetOrder[i] = b /\ AssetOrder[j] = a

\* Buys share the limit in proportion; what the divisions leave over goes, one
\* unit each, to the buys in the order of the assets.
Shared(want, limit) ==
    LET Buys == {a \in Asset : want[a] > 0}
        all == Total(want, Buys)
        part == [a \in Buys |-> (want[a] * limit) \div all]
        left == limit - Total(part, Buys)
        Rank(a) == Cardinality({b \in Buys : Earlier(b, a)})
    IN  [a \in Asset |->
            IF a \notin Buys \/ all <= limit THEN want[a]
            ELSE IF Rank(a) < left THEN part[a] + 1 ELSE part[a]]

NotionalsApproved(approved) == Shared([a \in Asset |-> Wanted(a)], approved)
Notionals(approved) ==
    Shared([a \in Asset |-> Wanted(a)], Smaller(approved, BuyingPower))

Turnover(n) ==
    ((account.turnover + Total([a \in Asset |-> Larger(n[a], -n[a])], Asset)) * Scale) \div Equity

Achieved(n) == [a \in Asset |-> ((Value(a) + n[a]) * Scale) \div Equity]

\* FactorExposure::from_target: a leveraged fund moves three times its index.
Economic(w, a) == IF a \in DailyReset THEN 3 * w[a] ELSE w[a]
Exposure(w, S) == Total([a \in S |-> Economic(w, a)], S)
Leveraged(w) == Exposure(w, DailyReset)
Following(w, i) == Exposure(w, {a \in Asset : Index[a] = i})

\* ExecutionGatePolicy: factors, pairs and turnover, then the mandate.
WithinPolicy(n) ==
    LET w == Achieved(n)
    IN  /\ Leveraged(w) <= Limits.maxLeveraged
        /\ \A i \in {Index[a] : a \in Asset} :
              Following(w, i) <= Limits.maxIndex /\ Following(w, i) <= Limits.maxPair
        /\ Turnover(n) <= Limits.maxTurnover
        /\ Gross(w) <= Limits.mandateGross
        /\ Scale - Gross(w) >= Limits.mandateCash
        /\ decision.shortfall <= Limits.mandateDrawdown

\* assess_capacity: only a plan that buys needs volume for what it will hold.
Participation(w, a) == (((Equity * w[a]) \div Scale) * Scale) \div Volume[a]
WithinCapacity(n) ==
    LET w == Achieved(n)
    IN  (\E a \in Asset : n[a] > 0) =>
            /\ Held(w) # {} /\ Held(w) \subseteq DOMAIN Volume
            /\ \A a \in Held(w) : Participation(w, a) <= Limits.maxParticipation

\* Mutant: a plan is accepted beside open orders.
AcceptableBeside(n) ==
    /\ ~decision.blocked
    /\ Equity > 0 /\ Gross(decision.weights) <= Limits.maxGross
    /\ \E a \in Asset : n[a] # 0
    /\ Turnover(n) <= Limits.maxDailyTurnover
    /\ WithinPolicy(n) /\ WithinCapacity(n)

\* build_execution_plan and the gates on its result, with the blocker that
\* derive_snapshot_blockers raises for an account that still has open orders.
Acceptable(n) ==
    /\ ~decision.blocked
    /\ orders = {}
    /\ Equity > 0 /\ Gross(decision.weights) <= Limits.maxGross
    /\ \E a \in Asset : n[a] # 0
    /\ Turnover(n) <= Limits.maxDailyTurnover
    /\ WithinPolicy(n) /\ WithinCapacity(n)

\* protected_limit_price: a buy is rounded down to a tick, a sell up to one.
LimitPrice(side, quote) ==
    IF side = "buy"
    THEN LET raw == (quote.ask * (Limits.bps + Limits.protection)) \div Limits.bps
         IN  (raw \div Limits.tick) * Limits.tick
    ELSE LET raw == (quote.bid * (Limits.bps - Limits.protection)) \div Limits.bps
         IN  ((raw + Limits.tick - 1) \div Limits.tick) * Limits.tick

Side(n, a) == IF n[a] > 0 THEN "buy" ELSE "sell"
Intent(n, a) ==
    [asset |-> a, side |-> Side(n, a), limit |-> LimitPrice(Side(n, a), market[a]),
     notional |-> Larger(n[a], -n[a])]
Intents(n) == {Intent(n, a) : a \in {b \in Asset : n[b] # 0}}

\* The sells come first, then the buys, each in the order of the assets.
SentBefore(i, j) ==
    \/ i.side = "sell" /\ j.side = "buy"
    \/ i.side = j.side /\ Earlier(i.asset, j.asset)

\* quantity_string.
Quantity(intent) == IF intent.limit = 0 THEN 0 ELSE intent.notional \div intent.limit
------------------------------------------------------------------------------
SizingInit ==
    /\ market \in QuoteSets
    /\ account = [holding |-> [a \in Asset |-> 0], cash |-> OpeningCash, turnover |-> 0]
    /\ decision = None /\ plan = None
    /\ orders = {} /\ runs = 0

\* DecisionGate::decide of the next Run, whose research ends in one of these.
TakeDecision ==
    /\ runs < MaxRuns /\ plan.is # "sending"
    /\ decision' \in Decisions /\ plan' = None /\ runs' = runs + 1
    /\ UNCHANGED <<market, account, orders>>

\* ExecutionRuntime::evaluate.  Any other gate may have blocked it as well.
Evaluate(approved) ==
    /\ decision # None /\ plan = None
    /\ LET n == Notionals(approved)
       IN  \/ plan' = NoOrder
           \/ /\ Acceptable(n)
              /\ plan' = [is |-> "sending", rest |-> Intents(n), notional |-> n,
                          weights |-> Achieved(n),
                          holding |-> account.holding, quotes |-> market,
                          target |-> [a \in Asset |-> TargetValue(a)]]
    /\ UNCHANGED <<market, account, decision, orders, runs>>

Dispatched == [plan EXCEPT !.is = "sent", !.rest = {}]
Order(intent) ==
    [asset |-> intent.asset, side |-> intent.side, limit |-> intent.limit,
     quantity |-> Quantity(intent)]

\* One order after the other; a quantity of zero ends the dispatch.
Send ==
    /\ plan.is = "sending"
    /\ \/ plan.rest = {} /\ plan' = Dispatched /\ UNCHANGED orders
       \/ \E intent \in plan.rest :
             /\ \A other \in plan.rest \ {intent} : SentBefore(intent, other)
             /\ IF Quantity(intent) = 0 THEN plan' = Dispatched /\ UNCHANGED orders
                ELSE /\ plan' = [plan EXCEPT !.rest = @ \ {intent}]
                     /\ orders' = orders \cup {Order(intent)}
    /\ UNCHANGED <<market, account, decision, runs>>

\* The submission window closes, or the attempt fails, before the next order.
GiveUp ==
    /\ plan.is = "sending"
    /\ plan' = Dispatched
    /\ UNCHANGED <<market, account, decision, orders, runs>>

\* The broker: an order ends with some of it filled, at its limit or at a better
\* price; shares the account does not have are not sold.
Fill(order, filled, price) ==
    /\ order \in orders /\ filled <= order.quantity
    /\ IF order.side = "buy" THEN price <= order.limit
       ELSE price >= order.limit /\ filled <= account.holding[order.asset]
    /\ LET signed == IF order.side = "buy" THEN filled ELSE -filled
       IN  account' = [holding |-> [account.holding EXCEPT ![order.asset] = @ + signed],
                       cash |-> account.cash - signed * price,
                       turnover |-> account.turnover + filled * price]
    /\ orders' = orders \ {order}
    /\ UNCHANGED <<market, decision, plan, runs>>

\* Bound: it fills as a whole, by half or not at all.
Fills(order) == {0, order.quantity \div 2, order.quantity}

Move ==
    /\ market' \in QuoteSets \ {market}
    /\ UNCHANGED <<account, decision, plan, orders, runs>>

SizingNext ==
    \/ TakeDecision
    \/ \E approved \in Approvals : Evaluate(approved)
    \/ Send
    \/ GiveUp
    \/ \E order \in orders : \E filled \in Fills(order) :
          \E price \in {order.limit, market[order.asset].last} : Fill(order, filled, price)
    \/ Move

SizingSpec == SizingInit /\ [][SizingNext]_sizingVars
------------------------------------------------------------------------------
Planned == plan.is \in {"sending", "sent"}

\* What the accepted plan would hold is within the policy's limits on gross
\* weight, beta, shortfall and gap: decide measures its own weights, and nothing
\* measures again what the shared-out buys and the rounding make of them.
PlannedRiskHeld ==
    Planned => /\ Gross(plan.weights) <= Policy.maxGross
               /\ \A m \in Linear : Measure(plan.weights, m) <= Ceiling[m]

\* However the orders of this plan and of any before it fill, an asset it buys is
\* not bought beyond the value the decision gives it, at the buys' own limits.
BoughtWithinDecision ==
    Planned =>
        \A a \in Asset : plan.notional[a] > 0 =>
            LET open == {o \in orders : o.asset = a /\ o.side = "buy"}
                more == account.holding[a] - plan.holding[a]
                          + Total([o \in open |-> o.quantity], open)
            IN  plan.holding[a] * plan.quotes[a].last
                  + more * LimitPrice("buy", plan.quotes[a]) <= plan.target[a]

\* The account is never drawn below its credit, whether the sells of a plan fill
\* before its buys, after them or not at all, and over several Runs.
NeverOverdrawn == account.cash >= -Credit

\* A plan never buys an asset that one horizon of the decision expects to fall.
NoBuyAgainstAHorizon ==
    Planned => \A a \in decision.against : plan.notional[a] <= 0
=============================================================================
