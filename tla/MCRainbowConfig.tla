--------------------------- MODULE MCRainbowConfig ---------------------------
(***************************************************************************)
(* Instances of RainbowConfig: every command of the tool with no           *)
(* arguments, and a few commands with every combination of sources for two *)
(* of their parameters.                                                    *)
(***************************************************************************)
EXTENDS RainbowConfig

\* Every command of the tool.
AllCommands == Commands

One == {"new"}

\* A key that is given, given empty, or given twice.
Lines ==
  {<<>>} \cup {<<<<"eth-master-sk", v>>>> : v \in {"", "a"}}
    \cup {<<<<"eth-master-sk", "a">>, <<"eth-master-sk", "">>>>}

Secret == {Nothing, [n \in {"eth-master-sk"} |-> "secret"]}
=============================================================================
