-------------------------- MODULE MCRequestPipeline --------------------------
(* One setup for every mode and source, and the bodies that take different *)
(* ways through the handlers.                                              *)
EXTENDS RequestPipeline

From(source, v) == [[cli |-> Unset, env |-> Unset, toml |-> Unset] EXCEPT ![source] = v]

Starts ==
    {[mode |-> From("env", "rebuild"), upstream |-> From("env", "loopback"), fileParses |-> TRUE],
     [mode |-> From("cli", "passthrough"), upstream |-> From("toml", "alias"), fileParses |-> TRUE],
     [mode |-> From("toml", "rebuild"), upstream |-> From("toml", "alias"), fileParses |-> FALSE]}

SomeBodies ==
    {[parses |-> "request", size |-> "fine"], [parses |-> "request", size |-> "reducible"],
     [parses |-> "request", size |-> "irreducible"], [parses |-> "garbage", size |-> "overflow"],
     [parses |-> "json", size |-> "fine"], [parses |-> "json", size |-> "walled"]}

SomeUsages == {NoUsage, [input |-> 1, read |-> 1, found |-> TRUE]}
=============================================================================
