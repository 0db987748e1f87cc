------------------------------- MODULE MCCli --------------------------------
(***************************************************************************)
(* Words for Cli: a name, which is not a number, two numerals and one that *)
(* only clap accepts.                                                      *)
(***************************************************************************)
EXTENDS Cli, TLC

MCWords == {"hash", "4", "8", "-0"}
MCParse == ("hash" :> {}) @@ ("4" :> {4}) @@ ("8" :> {8}) @@ ("-0" :> {})
MCValueParser == [MCParse EXCEPT !["-0"] = {0}]
=============================================================================
