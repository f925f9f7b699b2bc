--------------------------- MODULE MCConfiguration ---------------------------
(***************************************************************************)
(* The instance of Configuration that TLC checks: three outputs whose      *)
(* modes do not all fit in the hardware together.                          *)
(***************************************************************************)
EXTENDS Configuration

CONSTANTS dp1, dp2, dp3

MCModes == (dp1 :> <<3, 1>>) @@ (dp2 :> <<2, 1>>) @@ (dp3 :> <<2>>)

Name(o) == Pattern("name", o)
Id(o) == Pattern("id", o)

\* A picture that is there, one that is not, with a color, and one without.
Picture(p) == Background(p, IF p = "lost" THEN "grey" ELSE None, {"sky"})

MCFiles ==
  [plain |-> <<>>,
   big |-> <<<<"output", Name(dp1), Mode(3)>>>>,
   full |-> <<<<"output", Every, AdaptiveSync(1) @@ Picture("lost")>>, <<"include", "more">>,
              <<"exec", "term">>, <<"always", "bar">>, <<"include", "more">>,
              <<"output", Name(dp2), Mode(1)>>>>,
   other |-> <<<<"output", Name(dp1), Picture("sky")>>, <<"include", "more">>, <<"output", Every, RenderBitDepth(10)>>,
               <<"exec", "chat">>>>,
   more |-> <<<<"include", "full">>, <<"output", Name(dp2), Disable @@ Picture("sky")>>, <<"always", "light">>,
              <<"exec", "mail">>>>]

Scene(file, first, acts, most) ==
  [file |-> file, first |-> first, acts |-> acts, most |-> most, outcomes |-> {"ok"},
   commands |-> {}, via |-> {"ipc"}, heads |-> {}, edits |-> {}]

PassingScenes ==
  {\* what is said of outputs
   [Scene("plain", {dp1, dp2}, {"command"}, 4) EXCEPT
      !.commands = {<<Every, <<AdaptiveSync(1)>>>>, <<Every, <<Mode(1), Picture("sky")>>>>, <<Name(dp1), <<Mode(3)>>>>,
                    <<Name(dp1), <<AdaptiveSync(0), Picture("lost")>>>>, <<Id(dp1), <<Mode(1)>>>>,
                    <<Id(dp1), <<AdaptiveSync(0), Picture("gone")>>>>, <<Name(dp2), <<AdaptiveSync(1)>>>>}],
   [Scene("plain", {dp1}, {"command", "plug"}, 5) EXCEPT
      !.commands = {<<Id(dp2), <<Disable>>>>, <<Name(dp2), <<Enable>>>>, <<Every, <<Disable>>>>, <<Name(dp1), <<Enable>>>>},
      !.via = {"ipc", "key"}],
   \* outputs that come and go, and clients that configure them
   [Scene("plain", {dp1, dp2}, {"plug", "command", "toggle", "unplug command"}, 3) EXCEPT
      !.commands = {<<Every, <<RenderBitDepth(10)>>>>, <<Name(dp1), <<RenderBitDepth(6)>>>>, <<Every, <<Power(0)>>>>}, !.via = {"key"},
      !.outcomes = {"ok", "commit"}],
   [Scene("full", {dp1, dp2}, {"manager", "test", "power", "request", "toggle"}, 3) EXCEPT
      !.heads = {Disable, [enabled |-> 1, mode |-> 1, sync |-> 1], [enabled |-> 1, mode |-> 3, sync |-> 0]}],
   [Scene("big", {dp1, dp3}, {"plug", "power", "manager"}, 3) EXCEPT !.heads = {Disable, Enable},
      !.outcomes = {"ok", "commit", "build"}],
   [Scene("plain", {dp1, dp2}, {"command", "manager", "test", "plug"}, 4) EXCEPT
      !.commands = {<<Id(dp1), <<Mode(1)>>>>, <<Name(dp1), <<Mode(3)>>>>}, !.via = {"key"},
      !.heads = {Disable, [enabled |-> 1, mode |-> 1]}, !.outcomes = {"ok", "build"}],
   \* files
   [Scene("full", {dp2}, {"reload", "plug", "swaybg", "command"}, 5) EXCEPT
      !.commands = {<<Name(dp2), <<Picture("sky")>>>>, <<Every, <<Mode(1)>>>>}, !.edits = {"full", "other"}]}

\* A client configures what was configured by identifier.
HiddenScenes ==
  {[Scene("plain", {dp1}, {"command", "manager", "hidden"}, 2) EXCEPT
      !.commands = {<<Id(dp1), <<Mode(1)>>>>}, !.heads = {[enabled |-> 1, mode |-> 3]}]}

\* An output that is away is configured by its identifier and then by its name.
AwayScenes ==
  {[Scene("plain", {dp1}, {"command", "hidden"}, 2) EXCEPT
      !.commands = {<<Id(dp2), <<Mode(1)>>>>, <<Name(dp2), <<Mode(2)>>>>}]}

\* One client turns an output off and another one tests a configuration.
ForgetScenes ==
  {[Scene("plain", {dp1}, {"power", "test", "forget"}, 2) EXCEPT !.heads = {[enabled |-> 1, mode |-> 1]}]}

=============================================================================
