---- MODULE MCHttpsServer ----
EXTENDS HttpsServer

Ask(m, r, s, k) == [method |-> m, resource |-> r, size |-> s, keep |-> k]

\* Sizes around 2^Width, for Width = 1
MixedRequests ==
    {Ask("get", "file", 1, TRUE), Ask("get", "file", 2, TRUE),
     Ask("get", "file", 1, FALSE), Ask("get", "directory", 1, TRUE),
     Ask("head", "file", 1, TRUE), Ask("head", "missing", 0, TRUE),
     Ask("other", "denied", 0, FALSE)}

SimpleRequests ==
    {Ask("get", "file", 1, TRUE), Ask("get", "denied", 0, FALSE)}
====
