----------------------------- MODULE MCPipeline -----------------------------
(* The instances of Pipeline that TLC explores. *)
EXTENDS Pipeline

\* config/metadata_pipeline.yaml
AppChain == <<"Source", "InvertFilter", "Sink">>
\* The second main(): the plugins of plugin_test/.
TestChain == <<"Source", "Filter", "QueueSink">>

\* Every plugin once; and one without the last, with files that are no plugins, and
\* with a second library that says it is the InvertFilter.
MCDirectories == {<<"Sink", "InvertFilter", "Filter", "Source", "QueueSink">>,
                  <<"readme", "InvertFilter", "Source", "nothing_to_create", "InvertFilter", "Sink">>}

\* The chains of the two programs, a longer one, and configurations with a
\* type that does not exist or an element in the wrong place.
MCChains == {AppChain, TestChain,
             <<"Source", "InvertFilter", "InvertFilter", "Sink">>,
             <<"Source", "InvertFilter">>,
             <<"InvertFilter", "Sink">>,
             <<"Source", "Blur", "Sink">>,
             <<"Sink", "InvertFilter">>,
             <<"InvertFilter", "Source", "Sink">>,
             <<"Source", "Source", "Sink">>,
             <<>>}
MCReversed == {TestChain}
=============================================================================
