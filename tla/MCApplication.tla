--------------------------- MODULE MCApplication ----------------------------
EXTENDS Application

MCArguments ==
    {<<>>, <<"--gui-smoke">>, <<"--database-path", "file">>, <<"--database-path", "directory/">>,
     <<"--database-path", "--gui-smoke">>}
MCTexts == {<<"quote", "backslash">>, <<"control">>}
MCClientIds == {<<"space">>}
=============================================================================
