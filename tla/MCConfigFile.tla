---------------------------- MODULE MCConfigFile ----------------------------
(***************************************************************************)
(* Small sets of configuration files for checking ConfigFile.              *)
(***************************************************************************)
EXTENDS ConfigFile

Entry(k, st, v, c) == [key |-> k, style |-> st, value |-> v, comment |-> c]

Texts(n, set) == [1 .. n -> set]

\* Every text of up to two characters, and of three that are not plain.
Awkward ==
    UNION {Texts(n, {"w1", "blank", "sq", "dq", "bs", "hash"}) : n \in 0 .. 2}
    \union Texts(3, {"sq", "dq", "bs", "hash"})

AwkwardFiles ==
    {<<Entry("workdir", st, v, TRUE)>> : st \in {"single", "double"}, v \in Awkward}

\* Words and keys in every combination that the switch tells apart.
Plain == {Entry("binary_path", "plain", <<"w2">>, TRUE),
          Entry("Binary-Path", "double", <<"blank", "w1">>, FALSE),
          Entry("binary_path", "single", << >>, FALSE),
          Entry("binary_path", "plain", <<"junk">>, FALSE),
          Entry("workdir", "none", << >>, TRUE),
          Entry("workdir", "single", << >>, FALSE),
          Entry("workdir", "plain", <<"w1">>, FALSE),
          Entry("workdir", "plain", <<"junk">>, FALSE),
          Entry("workdir", "plain", <<"w2">>, FALSE),
          Entry("print_timeout", "plain", <<"w2">>, FALSE),
          Entry("print_timeout", "plain", <<"past">>, FALSE),
          Entry("print_timeout", "plain", <<"zero">>, FALSE),
          Entry("print_timeout", "double", <<"blank", "w1">>, FALSE),
          Entry("sandbox", "plain", <<"w1">>, FALSE),
          Entry("sandbox", "double", << >>, FALSE),
          Entry("dangerously-skip-permissions", "plain", <<"w1">>, FALSE),
          Entry("effort", "plain", <<"w1">>, FALSE),
          Entry("reasoning_effort", "double", <<"w2", "blank">>, FALSE),
          Entry("store", "plain", <<"junk">>, FALSE)}

MCFiles == AwkwardFiles \union UNION {[1 .. n -> Plain] : n \in 0 .. 2}
=============================================================================
