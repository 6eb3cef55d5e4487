--------------------------- MODULE MCSyncScheduler ---------------------------
(* Small schedulers for TLC. *)
EXTENDS SyncScheduler

\* The source's default policies (the second without its unload push) and three
\* that add the other modes.
MCPolicies == {
  [push |-> "on-change", gap |-> FALSE, unload |-> TRUE, pull |-> "manual", steady |-> FALSE],
  [push |-> "debounce", gap |-> TRUE, unload |-> FALSE, pull |-> "interval", steady |-> TRUE],
  [push |-> "interval", gap |-> TRUE, unload |-> TRUE, pull |-> "manual", steady |-> FALSE],
  [push |-> "on-change", gap |-> FALSE, unload |-> FALSE, pull |-> "on-focus", steady |-> FALSE],
  [push |-> "manual", gap |-> FALSE, unload |-> FALSE, pull |-> "phased", steady |-> TRUE]}
MCSequence == <<"menu", "orders">>
=============================================================================
