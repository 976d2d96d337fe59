------------------------- MODULE MCPostgresJobStore -------------------------
(* A small instance of PostgresJobStore.                                     *)
EXTENDS PostgresJobStore, TLC

CONSTANTS c1, c2

\* A crawl's thread and the requests; either may import.
MCMethods ==
    c1 :> {"create", "import_terminal"}
        @@ c2 :> {"import_terminal", "write_gsc_queries", "work", "delete", "get"}
=============================================================================
