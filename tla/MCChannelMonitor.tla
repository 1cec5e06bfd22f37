-------------------------- MODULE MCChannelMonitor --------------------------
\* One group with two ratios; a group task and a balance task.
EXTENDS ChannelMonitor

OneGroup  == {"vip"}
TwoRatios == {1, 2}
TwoTasks  == {"group", "balance"}
SomePlans == {[group |-> "group_ratio_change", balance |-> "low_balance"],
              [group |-> "group_removed", balance |-> "low_balance"],
              [group |-> "group_added", balance |-> "burn_rate"]}
SomeEdits == {<<"group_ratio_change", "group_added">>, <<"low_balance", "group_ratio_change">>}
=============================================================================
