------------------------- MODULE MCCompactionApply -------------------------
EXTENDS CompactionApplyProperties

OneOfEach == <<"cancel", "update", "create">>
CancelThenUpdate == <<"cancel", "update">>
=============================================================================
