--------------------------- MODULE MCCommandRecord ---------------------------
(* Commands that a shell would not tell apart, or that are not UTF-8; facts of  *)
(* a run that differ from one of them in one thing.                             *)
EXTENDS CommandRecord

Executable == <<"x">>
TheCommands ==
    {<<Executable, <<"a", "space", "b">>>>, <<Executable, <<"a">>, <<"b">>>>,
     <<Executable, <<"a">>, <<>>, <<"b">>>>,
     <<Executable, <<"a", "quote", "comma", "quote", "b">>>>,
     <<Executable, <<"a", "backslash">>, <<"comma", "quote", "b">>>>,
     <<Executable, <<"surrogate">>>>}
TheSpecifications == {<<>>, <<"s">>}
TheExitCodes == {0, -9}
TheReadings == {0, 1}

Plain ==
    [version |-> <<1, 0, 0>>, run_id |-> <<"r">>, contract_id |-> <<"c">>,
     baseline_sha |-> <<40, "b">>, candidate_sha |-> <<40, "c">>,
     changed_files |-> <<<<"f">>, <<"g">>>>,
     started_at |-> <<0, "utc">>, finished_at |-> <<1, "utc">>,
     environment |-> [python |-> <<"p">>, uv_lock_sha256 |-> Digest("lock"),
                      tool_versions |-> (<<"t">> :> <<"v">>)],
     usage |-> [model |-> <<"m">>, provider |-> <<"q">>, input |-> 0, output |-> 1,
                cost |-> None]]

TheContexts ==
    {Plain,
     [Plain EXCEPT !.candidate_sha = <<64, "c">>],
     [Plain EXCEPT !.changed_files = <<>>],
     [Plain EXCEPT !.changed_files = <<<<"f", "comma", "g">>>>],
     [Plain EXCEPT !.changed_files = <<<<"surrogate">>>>],
     [Plain EXCEPT !.environment.tool_versions = <<"t">> :> <<>>],
     [Plain EXCEPT !.usage.cost = Number(0)],
     [Plain EXCEPT !.usage.cost = Float(1)]}
=============================================================================
