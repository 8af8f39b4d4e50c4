----------------------------- MODULE MCScoring -----------------------------
EXTENDS Scoring, TLC

\* Facts of one project; er1 may be replaced by er2.
MCFields ==
  {Name, Version, "be_value_tco2e", "pe_value_tco2e", "le_value_tco2e", "er_reported_tco2e"}

MCFacts == {"name", "version", "be", "pe", "le", "er1", "er2"}

MCFieldOf == [x \in MCFacts |->
  CASE x = "name"           -> Name
    [] x = "version"        -> Version
    [] x = "be"             -> "be_value_tco2e"
    [] x = "pe"             -> "pe_value_tco2e"
    [] x = "le"             -> "le_value_tco2e"
    [] x \in {"er1", "er2"} -> "er_reported_tco2e"]

MCErFields == MCFields \ {Name, Version}

MCMeasured == {"be", "pe", "le", "er1", "er2"}

MCFirst(f) == CHOOSE x \in MCFacts \ {"er2"} : MCFieldOf[x] = f

MCInitial ==
  {[f \in MCFields |-> MCFirst(f)]}

MCDimensions   == {"D06", "D08"}
MCInputFields  == ("D06" :> {"pe_value_tco2e"}) @@ ("D08" :> {"be_value_tco2e", "er_reported_tco2e"})
MCPeriodFields == ("D06" :> {"pe_value_tco2e"}) @@ ("D08" :> MCErFields)
MCCriteriaOf   == ("D06" :> {"D06.C1"}) @@ ("D08" :> {"D08.C1", "D08.C2"})

\* A context that attests the first set of measurements.
MCContexts ==
  {[authority |-> TRUE, name |-> "name", version |-> "version", quotes |-> {{"name"}},
    period |-> [f \in MCErFields |-> MCFirst(f)]]}

MCRequest ==
  {[criterion |-> "D08.C1", outcome |-> "supported", facts |-> {"be", "le"},
    quotes |-> {{"be"}}],
   [criterion |-> "D06.C1", outcome |-> "conflicting", facts |-> {},
    quotes |-> {}]}
MCJudgments == {MCRequest}
=============================================================================
