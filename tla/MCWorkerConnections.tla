------------------------ MODULE MCWorkerConnections ------------------------
\* Four tasks of either kind in a row, in a process that may be killed.
EXTENDS WorkerConnections

MCClients == {"db", "redis", "llm", "embeddings"}
=============================================================================
