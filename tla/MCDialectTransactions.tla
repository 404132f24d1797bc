------------------------ MODULE MCDialectTransactions ------------------------
(* Instances of DialectTransactions for TLC. *)
EXTENDS DialectTransactions

Every == {"mysql", "oracledb", "redshift", "mssql"}
SqlServer == {"mssql"}
=============================================================================
