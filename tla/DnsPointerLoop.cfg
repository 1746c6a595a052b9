\* Datagrams that are not answers of the server reach the socket Driver.Run
\* reads: short question names, one a compression pointer to itself, and
\* A answers with empty data.
CONSTANTS
    Domains <- NoDomain
    Datagrams <- StrayDatagrams
SPECIFICATION Spec
INVARIANT ReceiveSurvives
