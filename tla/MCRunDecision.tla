---------------------------- MODULE MCRunDecision ----------------------------
(***************************************************************************)
(* How a Run decides: from the first Claims of its research to the one     *)
(* Decision (ResearchLoop), and from the forecasts of a Decision to orders *)
(* and their fills (PositionSizing).                                       *)
(*                                                                         *)
(* What passes between them, a committed proposal, is any of Grids here,   *)
(* so the two share no state.  TLC explores them in one state space: a     *)
(* behaviour is of one of them, chosen at the start, while the other rests *)
(* where it starts; their states add up and do not multiply.               *)
(***************************************************************************)
EXTENDS ResearchLoop, PositionSizing, TLC

CONSTANTS f1, p1, c1, c2, i1    \* a forecast, an allocation, contents, an issue

VARIABLE part    \* which of the two this behaviour is of

ASSUME ResearchLoopAssumption
ASSUME LayersAreClosure
ASSUME SizingAssumption

\* Contents are interchangeable.
ContentSymmetry == Permutations(Contents)

DecisionInit == Init /\ SizingInit /\ part \in {"research", "sizing"}

DecisionNext ==
  /\ \/ part = "research" /\ Next /\ UNCHANGED sizingVars
     \/ part = "sizing" /\ SizingNext /\ UNCHANGED vars
  /\ UNCHANGED part

DecisionSpec == DecisionInit /\ [][DecisionNext]_<<part, vars, sizingVars>>
------------------------------------------------------------------------------
(* A fund that is reset every day and the index it follows, two horizons.  *)

CONSTANTS tqqq, qqq, up, down, flat, silent, unknown

MCAssetOrder == <<tqqq, qqq>>
MCIndex == (tqqq :> "nasdaq") @@ (qqq :> "nasdaq")
MCSizedHorizons == {1, 3}
MCGrids == [{tqqq, qqq} \X MCSizedHorizons -> {up, down, flat, silent}]
MCCalibrated ==
    [x \in {tqqq, qqq} \X MCSizedHorizons \X {up, down, flat} |->
        IF x[3] = up THEN [p |-> 80, alpha |-> 25]
        ELSE IF x[3] = down THEN [p |-> 20, alpha |-> -20]
        ELSE IF x[1] = tqqq THEN unknown ELSE [p |-> 52, alpha |-> 10]]
MCRisk ==
    (tqqq :> [vol |-> 60, beta |-> 300, shortfall |-> 30, gap |-> 30, capital |-> 60,
              liquidity |-> 50, decay |-> 5])
    @@ (qqq :> [vol |-> 25, beta |-> 100, shortfall |-> 10, gap |-> 12, capital |-> 99,
                liquidity |-> 99, decay |-> 0])
MCCovariance ==
    [x \in {tqqq, qqq} \X {tqqq, qqq} |->
        IF x[1] # x[2] THEN 1400 ELSE IF x[1] = tqqq THEN 3600 ELSE 625]
MCPolicy ==
    [minEdge |-> 10, minConfidence |-> 50, maxHoldingDays |-> 1,
     share |-> (1 :> 40) @@ (3 :> 60), maxGross |-> 85, maxVolatility |-> 25,
     maxBeta |-> 110, maxShortfall |-> 12, maxGap |-> 15]
MCLimits ==
    [maxGross |-> 100, maxDailyTurnover |-> 200, maxTurnover |-> 150, maxLeveraged |-> 120,
     maxIndex |-> 150, maxPair |-> 150, mandateGross |-> 90, mandateCash |-> 10,
     mandateDrawdown |-> 12, maxParticipation |-> 40, bps |-> 10, protection |-> 1, tick |-> 2]
MCVolume == (tqqq :> 200) @@ (qqq :> 200)
MCQuoteSets ==
    {(tqqq :> [bid |-> 4, ask |-> 5, last |-> 5]) @@ (qqq :> [bid |-> 9, ask |-> 11, last |-> 10]),
     (tqqq :> [bid |-> 6, ask |-> 7, last |-> 6]) @@ (qqq :> [bid |-> 10, ask |-> 12, last |-> 11])}
==============================================================================
