------------------------------ MODULE MCWakeup -------------------------------
(* Model-checking instance of Wakeup. *)
EXTENDS Wakeup

MCRunning == {{"watcher"}, {"poker"}}

MCLetters ==
    {[kind |-> "plain", scope |-> "agent", valid |-> TRUE],
     [kind |-> "sleep", scope |-> "agent", valid |-> TRUE],
     [kind |-> "wake", scope |-> "all", valid |-> TRUE],
     [kind |-> "sleep", scope |-> "all", valid |-> FALSE]}
=============================================================================
