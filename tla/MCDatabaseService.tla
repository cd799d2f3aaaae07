------------------------- MODULE MCDatabaseService --------------------------
(* DatabaseService with each of the clients, or with one of them.          *)
EXTENDS DatabaseService

MySql == [engine |-> "mysql", odbcNamed |-> FALSE]
SqlServer(named) == [engine |-> "sqlserver", odbcNamed |-> named]

AllClients == {MySql, SqlServer(TRUE), SqlServer(FALSE)}
OnlyMySql == {MySql}
OnlySqlServer == {SqlServer(TRUE)}

=============================================================================
