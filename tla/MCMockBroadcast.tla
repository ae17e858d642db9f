-------------------------- MODULE MCMockBroadcast --------------------------
EXTENDS MockBroadcast

MCTemplates == <<"game:update_state", "game:ball_hit", "game:goal_scored">>
MCWanted == {"game:update_state", "game:goal_scored"}

=============================================================================
