---------------------------- MODULE MCSessionTrace ----------------------------
EXTENDS SessionTrace

TwoDetails == {{"obs", "obs_info", "plan", "error_prefix", "return_action"},
               {"state", "last_action_error", "memory_update"}}
LostAndWon == {<<0>>, <<0, 1>>}
=============================================================================
