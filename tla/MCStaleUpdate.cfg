SPECIFICATION CacheSpec
CONSTANTS
    Sources = {"a", "b", "bad"}
    Compilable = {"a", "b"}
    Clients <- MCClients
    nullptr = nullptr
INVARIANT EntriesMatch
