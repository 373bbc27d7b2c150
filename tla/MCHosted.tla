------------------------------ MODULE MCHosted ------------------------------
(***************************************************************************)
(* A small instance of HostedBackend for TLC: two calls in a row, every    *)
(* provider and transport, no and one retry, a negative setting.           *)
(***************************************************************************)
EXTENDS HostedBackend

SmallSpecs == [provider : Providers, base : {<<"host">>}]
              \cup {[provider |-> "openai", base |-> <<"host", "proxy">>],
                    [provider |-> "anthropic", base |-> <<"messages">>]}
SomeRetries == {-1, 1}
AllRoutes == {<<"socket">>, <<"curl">>, <<"wininet">>, <<"wininet", "curl.exe">>}

Said(blocks, counted) ==
  [status |-> 200, blocks |-> blocks, refusal |-> FALSE, counted |-> counted]

SmallAnswers ==
  {Said(<<"text", "tool_use", "more">>, TRUE),
   [Said(<<>>, TRUE) EXCEPT !.refusal = TRUE],
   [Said(<<>>, FALSE) EXCEPT !.status = 503]}
=============================================================================
