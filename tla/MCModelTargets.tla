--------------------------- MODULE MCModelTargets ---------------------------
\* No handler reads two of the three stores, so clients use the routes of one.
EXTENDS ModelTargetService, TLC

Credentials ==
    [routes |-> {"create_credential", "update_scopes", "delete_credential",
                 "list_credentials"},
     scopes |-> {{"standard"}}, credentials |-> 4]

TokensOfCredentials ==
    [routes |-> {"create_credential", "update_scopes", "delete_credential",
                 "oauth2_token"},
     scopes |-> {{}, {"standard"}}, credentials |-> 2]

Datasets ==
    [routes |-> {"create_dataset", "status", "download", "delete_dataset"},
     scopes |-> {}, credentials |-> 0]

Reports ==
    [routes |-> {"create_report", "download_report"},
     scopes |-> {}, credentials |-> 0]

MCWorkloads == {Credentials, TokensOfCredentials, Datasets, Reports}
OnlyDatasets == {Datasets}

MCScopeLists == {{}, {"standard"}}
MCTokens == {{"all", "clientcredentials"}, {"standard"}}

Interchangeable == Permutations(Workers) \cup Permutations(ClientIds)
=============================================================================
