---------------------------- MODULE MCFunctions ----------------------------
(* All pure functions: resolve() while the files are edited, and then no    *)
(* other one is called; the planner and glob_matches over files at rest.    *)
EXTENDS PureFunctions, ConfigResolve

Resolving == [files |-> "edited"]
FunctionsInit == Init /\ (input = Resolving \/ FirstCall)
FunctionsNext == \/ input = Resolving /\ Next /\ UNCHANGED input
                 \/ NextCall /\ UNCHANGED vars
FunctionsSpec == FunctionsInit /\ [][FunctionsNext]_<<vars, input>>

-----------------------------------------------------------------------------
\* Odd and even sizes, and those around the percents of rc.xml; the product of
\* the largest width is the first that wraps.
MCWidths == {1, 2, 3, 7, 10, 33, 40, 41}
MCHeights == {1, 2, 3, 9}

Whole == [schema_version |-> 1, mode |-> "auto", maximum |-> 6, wine |-> FALSE, rules |-> << >>]
MCDefaults ==
  {Whole, [Whole EXCEPT !.maximum = 7], [Whole EXCEPT !.rules = <<"dialog floats">>]}

Empty ==
  [schema_version |-> 1, mode |-> Unset, maximum |-> Unset, wine |-> Unset, rules |-> << >>]
MCPatches ==
  {Empty,
   [Empty EXCEPT !.mode = "float", !.maximum = 0],
   [Empty EXCEPT !.mode = "auto", !.maximum = 3, !.rules = <<"dialog ignored", "panel floats">>],
   [Empty EXCEPT !.wine = TRUE, !.rules = <<"dialog managed">>],
   [Empty EXCEPT !.rules = <<"no app_id">>],
   [Empty EXCEPT !.schema_version = 2]}

MCRules == {"dialog floats", "dialog ignored", "dialog managed", "panel floats", "no app_id"}
MCValidRules == MCRules \ {"no app_id"}
=============================================================================
