------------------------ MODULE MCProjectConsistency ------------------------
(* ProjectConsistency with its constants given values here and in its cfg. *)
EXTENDS ProjectConsistency, TLC

CONSTANTS r1, r2, r3

\* Two extractors over one document, and a second document.
Sources  == (r1 :> "pdd") @@ (r2 :> "pdd") @@ (r3 :> "report")
Versions == (r1 :> 1) @@ (r2 :> 1) @@ (r3 :> 2)

Candidate(field, value, unit, evidence, confidence) ==
  [field |-> field, value |-> value, unit |-> unit, evidence |-> evidence,
   confidence |-> confidence, missing |-> None]

Abstention(field, reason, evidence) ==
  [field |-> field, value |-> None, unit |-> None, evidence |-> evidence,
   confidence |-> "unknown", missing |-> reason]

Exact == {"exact"}

\* Early and late dates, one that is no date; a capacity in two units, of two
\* amounts and misquoted; a flag and the value it excludes; energy in two units;
\* two methodologies; and an ambiguous abstention.
Sample ==
  {Candidate("crediting_period_start", Text("date", 1), None, Exact, "high"),
   Candidate("crediting_period_start", Text("date", 3), None, Exact, "low"),
   Candidate("crediting_period_end", Text("date", 2), None, Exact, "unknown"),
   Candidate("crediting_period_end", Text("other", 1), None, {"evidence_offsets_missing"}, "high"),
   Candidate("installed_capacity_mw", Whole(5), "MW", Exact, "high"),
   Candidate("installed_capacity_mw", Whole(5), "kW", Exact, "high"),
   Candidate("installed_capacity_mw", Whole(0), "MW", {"exact", "evidence_quote_missing"}, "high"),
   Candidate("pe_applicable_flag", Bool(0), None, Exact, "high"),
   Candidate("pe_value_tco2e", Whole(-3), "tCO2e", Exact, "high"),
   Candidate("electricity_generated_mwh", Whole(7), "MWh", Exact, "high"),
   Candidate("electricity_exported_mwh", Whole(6), "GWh", Exact, "high"),
   Candidate("methodology_name", Acm0002, None, Exact, "high"),
   Candidate("methodology_name", Text("other", 1), None, Exact, "unknown"),
   Abstention("methodology_name", "ambiguous", {})}
=============================================================================
