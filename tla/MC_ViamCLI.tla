----------------------------- MODULE MC_ViamCLI -----------------------------
EXTENDS ViamCLI, TLC

(* Command lines reaching every kind of command: an action at each depth, *)
(* an alias, groups with and without a leftover word, an unknown command  *)
(* and a positional argument.                                              *)
MCArgvs ==
    { <<>>, <<"auth">>, <<"login", "print-access-token">>, <<"whoami">>,
      <<"robot">>, <<"robot", "status">>, <<"robot", "foo">>, <<"nosuch">>,
      <<"robot", "part", "logs">>, <<"robot", "part", "run", "svc.Method">>,
      <<"data", "export">>, <<"module", "upload", "pkg.tar.gz">>, <<"version">> }

MCGiven ==
    { {}, {"robot"}, {"robot", "part"}, {"f", "robot", "part"},
      {"organization", "location", "robot", "part"}, {"version", "platform"},
      {"DataFlagDestination", "DataFlagDataType"} }

(* An error text without and with a formatting verb, e.g. a path such as  *)
(* "50%done" echoed by an action.                                          *)
MCErrTexts == { <<"e">>, <<"5", "0", "%", "d", "o", "n", "e">> }

MCReqText == <<"r">>

MCUsageText == <<"u">>
=============================================================================
